---- MODULE Spec2Model ----
(***************************************************************************)
(* docker-revp: a reverse-proxy control plane.  DockerMonitor watches the  *)
(* containers of several hosts (events and a periodic sweep), CaddyManager *)
(* drives the routes of the two proxy servers srv0 (HTTPS) and srv1 (HTTP) *)
(* through the admin API, and DockerMonitorService applies the static      *)
(* routes at startup and whenever the static-routes file changes.          *)
(*                                                                         *)
(* Every handler is one action.  A proxy request fails exactly when the    *)
(* proxy is unreachable (caddyUp = FALSE), and then it raises, as httpx    *)
(* does on a connection error.                                             *)
(***************************************************************************)
EXTENDS Naturals, Sequences, FiniteSets, TLC

(***************************************************************************)
(* Bounds of the model.                                                    *)
(***************************************************************************)
\* changes of the world (containers, connections, files, outside edits) that a
\* behaviour follows
MaxChanges == 3
\* events reported by the runtime and not yet read by a consumer
MaxQueue == 1

(***************************************************************************)
(* Generic helpers.                                                        *)
(***************************************************************************)
\* left fold of Op over a sequence, in index order (a Python for loop)
Fold(Op(_, _), acc, seq) ==
    LET f[i \in 0..Len(seq)] == IF i = 0 THEN acc ELSE Op(f[i - 1], seq[i])
    IN  f[Len(seq)]

\* the subsequence of the elements that satisfy Test, in order
Filter(Test(_), seq) ==
    LET step(acc, x) == IF Test(x) THEN Append(acc, x) ELSE acc
    IN  Fold(step, <<>>, seq)

\* number of elements that satisfy Test
Count(Test(_), seq) == Len(Filter(Test, seq))

\* seq without its element at index i
RemoveAt(seq, i) == SubSeq(seq, 1, i - 1) \o SubSeq(seq, i + 1, Len(seq))

\* the set of the elements of a sequence
Range(seq) == {seq[i] : i \in 1..Len(seq)}

(***************************************************************************)
(* The world the program observes: hosts, containers, labels, port tables. *)
(***************************************************************************)
Containers == {"c1", "c2"}
\* DockerMonitor.hosts_config, in configuration order
HostOrder == <<"h1", "h2">>
Hosts == Range(HostOrder)
\* the host a container runs on
HostOf(c) == IF c = "c1" THEN "h1" ELSE "h2"

\* docker events carry the 64-character id, docker ps the 12-character one
FullId(c) == IF c = "c1" THEN "c1full" ELSE "c2full"
ShortId(c) == c
CIDs == {FullId(c) : c \in Containers} \cup {ShortId(c) : c \in Containers}
\* the container an id (full or short) names, as docker inspect resolves it
ContainerOf(id) == CHOOSE c \in Containers : id \in {FullId(c), ShortId(c)}
\* container_id[:12]
First12(id) == ShortId(ContainerOf(id))
\* cid.startswith(prefix), for ids of the two forms
StartsWith(cid, prefix) == cid = prefix \/ (cid = FullId(ContainerOf(cid)) /\ prefix = ShortId(ContainerOf(cid)))

\* DockerMonitor._get_host_ip: localhost becomes host.docker.internal
HostIp(h) == IF h = "h2" THEN "host.docker.internal" ELSE "192.0.2.10"

\* a label key is the list of its dot-separated segments
Key(port, prop) == <<"snadboy", "revp", port, prop>>
\* str.isdigit on the third segment
IsDigit(s) == s \in {"80", "81"}
\* str.lower on a label value
Lower(s) ==
    IF s = "True" THEN "true" ELSE IF s = "False" THEN "false"
    ELSE IF s = "Box.lan" THEN "box.lan" ELSE s

\* label maps, as sequences of <<key, value>> in docker's order
LabelsPlain == << <<Key("80", "domain"), "a.x">> >>
LabelsTunnel == << <<Key("80", "cloudflare-tunnel"), "true">>, <<Key("80", "domain"), "a.x">> >>
LabelsTwo == << <<Key("80", "domain"), "a.x">>, <<Key("81", "backend-path"), "/api/">>,
                <<Key("81", "domain"), "b.x">>, <<Key("81", "force-ssl"), "False">> >>
LabelsSameDomain == << <<Key("80", "backend-proto"), "https">>, <<Key("80", "domain"), "a.x">>,
                       <<Key("80", "support-websocket"), "True">> >>
LabelsNoDomain == << <<Key("80", "force-ssl"), "true">> >>
LabelsMalformed == << <<<<"other", "label">>, "v">>, <<<<"snadboy", "revp", "80">>, "a.x">>,
                      <<<<"snadboy", "revp", "web", "domain">>, "a.x">> >>
\* the label maps of the two containers
LabelChoices ==
    { ("c1" :> LabelsPlain) @@ ("c2" :> LabelsSameDomain),
      ("c1" :> LabelsTunnel) @@ ("c2" :> LabelsNoDomain),
      ("c1" :> LabelsTwo) @@ ("c2" :> LabelsMalformed) }

\* NetworkSettings.Ports: <<port, proto>> -> list of HostPort
PortBindings(c) ==
    IF c = "c1" THEN (<<"80", "tcp">> :> <<"32000", "32001">>)
    ELSE (<<"80", "tcp">> :> <<>>) @@ (<<"80", "udp">> :> <<"33000">>)

Domains == {"a.x", "b.x", "s.x", "s_x"}
\* domain.replace('.', '_')
DotsToUnderscores(d) ==
    CASE d = "a.x" -> "a_x" [] d = "b.x" -> "b_x" [] d = "s.x" -> "s_x" [] OTHER -> d

(***************************************************************************)
(* ServiceInfo and ContainerInfo (docker_monitor.py).                      *)
(***************************************************************************)
None == "None"

\* labels_dict.get(name, default)
GetOr(props, name, default) == IF name \in DOMAIN props THEN props[name] ELSE default

\* ServiceInfo.__init__ from container labels
ServiceInfo(port, props) ==
    [ port |-> port,
      domain |-> GetOr(props, "domain", ""),
      backend_proto |-> GetOr(props, "backend-proto", "http"),
      backend_path |-> GetOr(props, "backend-path", "/"),
      force_ssl |-> (Lower(GetOr(props, "force-ssl", "true")) = "true"),
      support_websocket |-> (Lower(GetOr(props, "support-websocket", "false")) = "true"),
      resolved_host_port |-> None,
      static_backend_url |-> None,
      tls_insecure_skip_verify |-> FALSE,
      is_static |-> FALSE ]

\* ServiceInfo.is_valid
ServiceIsValid(s) ==
    IF s.is_static THEN s.domain # "" /\ s.static_backend_url # None
    ELSE s.domain # "" /\ s.port # ""

\* a key test that does not look at the port segment
IsRevpKeyAnyPort(k) == Len(k) >= 3 /\ k[1] = "snadboy" /\ k[2] = "revp" /\ Len(k) = 4

\* the condition of _parse_services for a key to count
IsRevpKey(k) == Len(k) >= 3 /\ k[1] = "snadboy" /\ k[2] = "revp" /\ Len(k) = 4 /\ IsDigit(k[3])

\* ContainerInfo._parse_services: one service per port, in order of first appearance
ParseServices(labels) ==
    LET step(acc, kv) == IF IsRevpKey(kv[1]) /\ kv[1][3] \notin Range(acc)
                         THEN Append(acc, kv[1][3]) ELSE acc
        ports == Fold(step, <<>>, labels)
        put(props, kv) == (kv[1][4] :> kv[2]) @@ props
        propsOf(p) == LET mine(kv) == IsRevpKey(kv[1]) /\ kv[1][3] = p
                      IN  Fold(put, <<>>, Filter(mine, labels))
    IN  [i \in 1..Len(ports) |-> ServiceInfo(ports[i], propsOf(ports[i]))]

\* ContainerInfo.resolve_port_mapping, for one service
ResolveService(s, bindings) ==
    LET tcp == <<s.port, "tcp">>
        udp == <<s.port, "udp">>
    IN  IF s.port = "" THEN s
        ELSE IF tcp \in DOMAIN bindings /\ bindings[tcp] # <<>>
             THEN [s EXCEPT !.resolved_host_port = bindings[tcp][1]]
        ELSE IF udp \in DOMAIN bindings /\ bindings[udp] # <<>>
             THEN [s EXCEPT !.resolved_host_port = bindings[udp][1]]
        ELSE s

\* ContainerInfo.resolve_port_mapping
ResolvePortMapping(services, bindings) ==
    IF DOMAIN bindings = {} THEN services
    ELSE [i \in 1..Len(services) |-> ResolveService(services[i], bindings)]

\* ContainerInfo.resolve_port_mapping: the ports of the services it logs
\* "is not published to host" for
UnpublishedWarnings(services, bindings) ==
    IF DOMAIN bindings = {} THEN {}
    ELSE { services[i].port : i \in
             { j \in 1..Len(services) :
                 /\ services[j].port # ""
                 /\ ~(<<services[j].port, "tcp">> \in DOMAIN bindings
                       /\ bindings[<<services[j].port, "tcp">>] # <<>>)
                 /\ ~(<<services[j].port, "udp">> \in DOMAIN bindings
                       /\ bindings[<<services[j].port, "udp">>] # <<>>) } }

\* ContainerInfo.valid_services
ValidServices(container) == Filter(ServiceIsValid, container.services)

\* ContainerInfo.is_valid
ContainerIsValid(container) == ValidServices(container) # <<>>

\* the has_revp_labels test of the start handler and of startup cleanup
HasRevpLabels(labels) == \E i \in 1..Len(labels) : IsRevpKey(labels[i][1])

(***************************************************************************)
(* Routes and route ids (caddy_manager.py).  An @id is modelled by its     *)
(* parts <<prefix, a, b>>: "revp_route_<cid>_<port>" is                    *)
(* <<"revp_route", cid, port>>, so that startswith(prefix) reads id[1].    *)
(***************************************************************************)
RouteId(cid, port) == <<"revp_route", cid, port>>
RedirectId(cid, port) == <<"revp_http_redirect", cid, port>>
StaticRouteId(domain) == <<"revp_static_route", DotsToUnderscores(domain), "">>
StaticRedirectId(domain) == <<"revp_static_http_redirect", DotsToUnderscores(domain), "">>
\* a route of another tool, and a route without @id
TenantId == <<"tenant_x_landing", "", "">>
NoId == <<"", "", "">>

\* the status code of the HTTP to HTTPS redirect
RedirectStatus == 308

\* getattr(service, 'cloudflare_tunnel', False): ServiceInfo sets no such attribute
CloudflareTunnel(service) ==
    "cloudflare_tunnel" \in DOMAIN service /\ service.cloudflare_tunnel

\* str.rstrip('/') on a backend path
RStripSlash(path) == IF path = "/api/" THEN "/api" ELSE path

\* the handler part of a route; every route has the same fields
Handle(handler, dial, tls, headers, websocket, rewrite, status) ==
    [ handler |-> handler, dial |-> dial, tls |-> tls, headers |-> headers,
      websocket |-> websocket, rewrite |-> rewrite, status_code |-> status ]

\* CaddyManager._create_route_config
CreateRouteConfig(container, service) ==
    LET backend_port == IF service.resolved_host_port # None
                        THEN service.resolved_host_port ELSE service.port
    IN  [ id |-> RouteId(container.container_id, service.port),
          host |-> service.domain,
          handle |-> Handle("reverse_proxy", <<container.host_ip, backend_port>>,
                            IF service.backend_proto = "https" THEN "tls" ELSE "plain",
                            IF CloudflareTunnel(service) THEN "cloudflare" ELSE "forwarded",
                            service.support_websocket,
                            IF service.backend_path # "/"
                            THEN <<"strip_path_prefix", RStripSlash(service.backend_path)>>
                            ELSE <<>>,
                            0) ]

\* CaddyManager._create_http_redirect_config
CreateHttpRedirectConfig(domain, container_id, port) ==
    [ id |-> RedirectId(container_id, port),
      host |-> domain,
      handle |-> Handle("static_response", <<>>, "plain", "location_https", FALSE, <<>>,
                        RedirectStatus) ]

\* backend URLs of static routes, with what the string operations make of them
Urls == {"http://u1:9000", "https://u2:9443/base"}
\* url.replace("http://", "").replace("https://", "").split("/")[0]
BackendDial(url) == IF url = "http://u1:9000" THEN <<"u1", "9000">> ELSE <<"u2", "9443">>
\* url.startswith("https://")
IsHttpsUrl(url) == url = "https://u2:9443/base"

\* ServiceInfo.__init__ from a static route
StaticServiceInfo(static_route) ==
    [ port |-> "static",
      domain |-> static_route.domain,
      backend_proto |-> IF IsHttpsUrl(static_route.backend_url) THEN "https" ELSE "http",
      backend_path |-> static_route.backend_path,
      force_ssl |-> static_route.force_ssl,
      support_websocket |-> static_route.support_websocket,
      resolved_host_port |-> None,
      static_backend_url |-> static_route.backend_url,
      tls_insecure_skip_verify |-> FALSE,
      is_static |-> TRUE ]

\* CaddyManager._create_static_route_config
CreateStaticRouteConfig(service) ==
    [ id |-> StaticRouteId(service.domain),
      host |-> service.domain,
      handle |-> Handle("reverse_proxy", BackendDial(service.static_backend_url),
                        IF IsHttpsUrl(service.static_backend_url)
                        THEN (IF service.tls_insecure_skip_verify THEN "tls_insecure" ELSE "tls")
                        ELSE "plain",
                        IF CloudflareTunnel(service) THEN "cloudflare" ELSE "forwarded",
                        service.support_websocket,
                        IF service.backend_path # "/"
                        THEN <<"uri", RStripSlash(service.backend_path)>> ELSE <<>>,
                        0) ]

\* the redirect_config literal of add_static_route
CreateStaticRedirectConfig(domain) ==
    [ id |-> StaticRedirectId(domain),
      host |-> domain,
      handle |-> Handle("static_response", <<>>, "plain", "location_https", FALSE, <<>>,
                        RedirectStatus) ]

\* a route another tool put on the proxy
ForeignRoute(id, host) ==
    [ id |-> id, host |-> host,
      handle |-> Handle("file_server", <<>>, "plain", "none", FALSE, <<>>, 0) ]

(***************************************************************************)
(* The state the handlers work on, as one record m:                        *)
(*   containers  DockerMonitor.containers, a dict in insertion order       *)
(*   srv0, srv1  the routes arrays of the proxy                            *)
(*   routes      CaddyManager._routes, domain -> owner                     *)
(*   writes      the PUT, POST, PATCH and DELETE requests issued           *)
(*   raised      an exception is propagating                               *)
(***************************************************************************)
NoOwner == <<"", "", "">>
\* f"{container_id}_{port}"
ContainerOwner(cid, port) == <<"container", cid, port>>
\* f"static_{domain}"
StaticOwner(domain) == <<"static", domain, "">>

ServerRoutes(m, server) == IF server = "srv0" THEN m.srv0 ELSE m.srv1
WithServerRoutes(m, server, rs) ==
    IF server = "srv0" THEN [m EXCEPT !.srv0 = rs] ELSE [m EXCEPT !.srv1 = rs]

\* index of the first route with this @id, 0 when there is none
FirstIndex(rs, route_id) ==
    IF \E i \in 1..Len(rs) : rs[i].id = route_id
    THEN CHOOSE i \in 1..Len(rs) : rs[i].id = route_id /\ \A j \in 1..(i - 1) : rs[j].id # route_id
    ELSE 0

\* CaddyManager._remove_route_by_id: always on srv0, every route with the id
RemoveRouteById(m, up, route_id) ==
    LET hit(r) == r.id = route_id
        keep(r) == r.id # route_id
    IN  IF ~(route_id[1] = "revp_route" \/ route_id[1] = "revp_static_route") THEN m
        ELSE IF ~up THEN m
        ELSE [m EXCEPT !.srv0 = Filter(keep, m.srv0), !.writes = @ + Count(hit, m.srv0)]

\* CaddyManager._apply_route
ApplyRoute(m, up, route_config, server) ==
    LET post(m1) ==
            IF ~up THEN [m1 EXCEPT !.raised = TRUE]
            ELSE [WithServerRoutes(m1, server, Append(ServerRoutes(m1, server), route_config))
                    EXCEPT !.writes = @ + 1]
    IN  IF route_config.id = NoId THEN [m EXCEPT !.raised = TRUE]
        ELSE post(RemoveRouteById(m, up, route_config.id))

\* CaddyManager.add_route
AddRoute(m, up, container, service) ==
    LET on_srv1(m1) ==
            IF m1.raised THEN m1
            ELSE IF service.force_ssl /\ ~CloudflareTunnel(service)
                 THEN ApplyRoute(m1, up, CreateHttpRedirectConfig(service.domain,
                                     container.container_id, service.port), "srv1")
            ELSE IF CloudflareTunnel(service)
                 THEN ApplyRoute(m1, up, CreateRouteConfig(container, service), "srv1")
            ELSE m1
        track(m2) ==
            IF m2.raised THEN m2
            ELSE [m2 EXCEPT !.routes[service.domain] =
                                ContainerOwner(container.container_id, service.port)]
    IN  IF ~ServiceIsValid(service) THEN m
        ELSE track(on_srv1(ApplyRoute(m, up, CreateRouteConfig(container, service), "srv0")))

\* CaddyManager._remove_route: the first route with the id, on the given server
RemoveRouteOf(m, up, container_id, port, server, is_redirect) ==
    LET route_id == IF is_redirect THEN RedirectId(container_id, port)
                    ELSE RouteId(container_id, port)
        i == FirstIndex(ServerRoutes(m, server), route_id)
    IN  IF ~up \/ i = 0 THEN m
        ELSE [WithServerRoutes(m, server, RemoveAt(ServerRoutes(m, server), i))
                EXCEPT !.writes = @ + 1]

\* CaddyManager.remove_route
RemoveRoute(m, up, container) ==
    LET step(acc, service) ==
            IF acc.routes[service.domain] # ContainerOwner(container.container_id, service.port)
            THEN acc
            ELSE LET redirect(a1) ==
                         IF service.force_ssl
                         THEN RemoveRouteOf(a1, up, container.container_id, service.port,
                                            "srv1", TRUE)
                         ELSE a1
                     forget(a2) == [a2 EXCEPT !.routes[service.domain] = NoOwner]
                 IN  forget(redirect(RemoveRouteOf(acc, up, container.container_id,
                                                   service.port, "srv0", FALSE)))
    IN  Fold(step, m, ValidServices(container))

\* CaddyManager.add_static_route
AddStaticRoute(m, up, service) ==
    LET on_srv1(m1) ==
            IF m1.raised THEN m1
            ELSE IF service.force_ssl /\ ~CloudflareTunnel(service)
                 THEN ApplyRoute(m1, up, CreateStaticRedirectConfig(service.domain), "srv1")
            ELSE IF CloudflareTunnel(service)
                 THEN ApplyRoute(m1, up, CreateStaticRouteConfig(service), "srv1")
            ELSE m1
        track(m2) ==
            IF m2.raised THEN m2
            ELSE [m2 EXCEPT !.routes[service.domain] = StaticOwner(service.domain)]
    IN  IF ~ServiceIsValid(service) \/ ~service.is_static THEN m
        ELSE track(on_srv1(ApplyRoute(m, up, CreateStaticRouteConfig(service), "srv0")))

\* a wipe that resets the whole routes array of srv0
CleanupStaticRoutesWhole(m, up) ==
    IF ~up THEN m
    ELSE [m EXCEPT !.srv0 = <<>>, !.writes = @ + 1,
                   !.routes = [d \in DOMAIN m.routes |->
                                 IF m.routes[d][1] = "static" THEN NoOwner ELSE m.routes[d]]]

\* CaddyManager.cleanup_static_routes
CleanupStaticRoutes(m, up) ==
    LET static(r) == r.id[1] = "revp_static_route"
        other(r) == ~static(r)
    IN  IF ~up THEN m
        ELSE [m EXCEPT !.srv0 = Filter(other, m.srv0),
                       !.writes = @ + Count(static, m.srv0),
                       !.routes = [d \in DOMAIN m.routes |->
                                     IF m.routes[d][1] = "static" THEN NoOwner ELSE m.routes[d]]]

\* the values of a static route's dns_resolved after DNS validation
DnsResolved == "True"
DnsFailed == "False"
DnsUnset == "None"

\* a static apply that installs every route, DNS validation failed or not
UpdateStaticRoutesAll(m, up, static_routes) ==
    LET step(acc, static_route) ==
            IF acc.raised THEN acc
            ELSE AddStaticRoute(acc, up, StaticServiceInfo(static_route))
    IN  Fold(step, CleanupStaticRoutes(m, up), static_routes)

\* CaddyManager.update_static_routes; an exception of add_static_route ends the loop
UpdateStaticRoutes(m, up, static_routes) ==
    LET step(acc, static_route) ==
            IF acc.raised THEN acc
            ELSE IF static_route.dns_resolved = DnsFailed THEN acc
            ELSE AddStaticRoute(acc, up, StaticServiceInfo(static_route))
    IN  Fold(step, CleanupStaticRoutes(m, up), static_routes)

(***************************************************************************)
(* State.                                                                  *)
(***************************************************************************)
VARIABLES
    phase,        \* "boot": the service is not running; "running": start() has returned
    status,       \* the world: container -> "running", "exited" or "gone"
    labels,       \* the world: container -> its label map
    hostUp,       \* the world: host -> docker commands over ssh succeed
    caddyUp,      \* the world: the proxy's admin API answers
    queue,        \* host -> the events of its stream not yet read
    staticFile,   \* the static routes the store loads from the file
    containers,   \* DockerMonitor.containers
    routes,       \* CaddyManager._routes
    srv0,         \* routes array of the HTTPS server
    srv1,         \* routes array of the HTTP server
    last,         \* the last operation, its argument, and whether it wrote to the proxy
    changes       \* number of changes of the world so far

mainVars == <<phase, status, labels, hostUp, caddyUp, queue, staticFile,
          containers, routes, srv0, srv1, last, changes>>

world == <<status, labels, hostUp, caddyUp>>

(***************************************************************************)
(* The static route store (static_routes.py) is specified on its own, in   *)
(* StoreSpec below; the variables of one specification rest while the      *)
(* other runs.                                                             *)
(***************************************************************************)
VARIABLES
    store_routes, \* StaticRoutesManager._routes
    store_mtime,  \* StaticRoutesManager._file_mtime
    disk,         \* the static routes file: what it holds and its modification time
    reply         \* the last store operation, its arguments and its outcome

storeVars == <<store_routes, store_mtime, disk, reply>>

\* StaticRoutesManager.__init__, before the first load; no file yet
StoreAtRest ==
    /\ store_routes = <<>>
    /\ store_mtime = 0
    /\ disk = [kind |-> "missing", routes |-> <<>>, mtime |-> 1]
    /\ reply = [op |-> "init", domain |-> "", route |-> <<>>, ok |-> TRUE, status |-> 0]

(* Functions of one call (port resolution, the loading of the host          *)
(* configuration) are specified in CallSpec below.                          *)
VARIABLES
    input,   \* the function called and its arguments
    output   \* what the call returned, raised and logged; NotCalled before it

callVars == <<input, output>>

NotCalled == [fn |-> "none"]

\* no call is under way
CallAtRest == input = NotCalled /\ output = NotCalled

(* The tasks of the service at the grain of their awaits (the event         *)
(* consumer, the sweep, the file watcher and the service's stop) are        *)
(* specified in TaskSpec below, for one container id.                       *)
VARIABLES
    at,     \* where each task stands
    svc,    \* how far DockerMonitorService.stop has come; "running" before it
    tracked,  \* whether the container id is a key of DockerMonitor.containers
    sent    \* the last route-mutating request issued to the proxy

taskVars == <<at, svc, tracked, sent>>

\* the service before DockerMonitor.start spawned its tasks
TasksAtRest ==
    /\ at = [t \in {"consumer", "sweep", "watcher"} |-> "idle"]
    /\ svc = "boot"
    /\ tracked = FALSE
    /\ sent = [by |-> "none", method |-> "", late |-> FALSE]

(* The handlers at the grain of their requests to the proxy's admin API    *)
(* are specified in RequestSpec below, for one container service.          *)
VARIABLES
    pos,    \* where each task stands in its handler
    doing,  \* the handler each task runs
    sel,    \* the array indices each task selected from its last GET
    caddy,  \* the routes arrays of srv0 and srv1, as lists of @ids
    known,  \* whether the table holds the container, and whether _routes names it owner
    alive,  \* whether the admin API answers
    hit     \* the last DELETE: the @id the driver selected and the @id removed

stepVars == <<pos, doing, sel, caddy, known, alive, hit>>

\* the handlers before any task runs
StepsAtRest ==
    /\ pos = [t \in {"consumer", "sweep"} |-> "idle"]
    /\ doing = [t \in {"consumer", "sweep"} |-> "none"]
    /\ sel = [t \in {"consumer", "sweep"} |-> <<>>]
    /\ caddy = [srv0 |-> <<>>, srv1 |-> <<>>]
    /\ known = [entry |-> FALSE, owner |-> FALSE]
    /\ alive = TRUE
    /\ hit = [want |-> "", got |-> ""]

asideVars == <<storeVars, callVars, taskVars, stepVars>>

vars == <<mainVars, asideVars>>

\* the handlers' view of the state, before an operation
Cur == [ containers |-> containers, srv0 |-> srv0, srv1 |-> srv1, routes |-> routes,
         writes |-> 0, raised |-> FALSE ]

\* an exception was caught and logged
Caught(m) == [m EXCEPT !.raised = FALSE]

(***************************************************************************)
(* The container runtime, as the monitor's docker commands see it.         *)
(***************************************************************************)
ContainerOrder == <<"c1", "c2">>

\* docker inspect <id> on host h answers (the container exists there)
CanInspect(h, id) ==
    id \in CIDs /\ hostUp[h] /\ HostOf(ContainerOf(id)) = h /\ status[ContainerOf(id)] # "gone"

\* Config.Labels of the inspected container
InspectLabels(id) == labels[ContainerOf(id)]

\* NetworkSettings.Ports of the inspected container: empty unless it runs
InspectPorts(id) ==
    IF status[ContainerOf(id)] = "running" THEN PortBindings(ContainerOf(id)) ELSE <<>>

\* docker ps on host h: the short ids of its running containers
ListContainers(h) ==
    LET here(c) == HostOf(c) = h /\ status[c] = "running"
        cs == Filter(here, ContainerOrder)
    IN  [i \in 1..Len(cs) |-> ShortId(cs[i])]

(***************************************************************************)
(* DockerMonitor (docker_monitor.py).                                      *)
(***************************************************************************)
TableKeys(m) == {m.containers[i].container_id : i \in 1..Len(m.containers)}

\* self.containers[container_id]
Tracked(m, cid) ==
    m.containers[CHOOSE i \in 1..Len(m.containers) : m.containers[i].container_id = cid]

\* Store, were the assignment to replace the table by the one entry
StoreAlone(m, container) ==
    [m EXCEPT !.containers = <<container>>]

\* self.containers[container_id] = container: a dict keeps a key's first position
Store(m, container) ==
    IF container.container_id \in TableKeys(m)
    THEN [m EXCEPT !.containers = [i \in 1..Len(m.containers) |->
            IF m.containers[i].container_id = container.container_id
            THEN container ELSE m.containers[i]]]
    ELSE [m EXCEPT !.containers = Append(m.containers, container)]

\* del self.containers[container_id]
Drop(m, cid) ==
    LET other(x) == x.container_id # cid
    IN  [m EXCEPT !.containers = Filter(other, m.containers)]

\* ContainerInfo.__init__ and resolve_port_mapping, as the start handler calls them
ContainerInfo(container_id, host, with_labels, bindings) ==
    [ container_id |-> container_id,
      host |-> host,
      host_ip |-> HostIp(host),
      services |-> ResolvePortMapping(ParseServices(with_labels), bindings) ]

\* the route installs of the start handler; the first exception ends the loop
AddRoutes(m, up, container) ==
    LET step(acc, service) == IF acc.raised THEN acc ELSE AddRoute(acc, up, container, service)
    IN  Caught(Fold(step, m, ValidServices(container)))

\* a start handler that stores the container before it looks at its services
HandleContainerStartStoresFirst(m, up, host, container_id) ==
    LET process(container) ==
            IF ~ContainerIsValid(container) THEN Store(m, container)
            ELSE AddRoutes(Store(m, container), up, container)
    IN  IF ~CanInspect(host, container_id) THEN m
        ELSE IF ~HasRevpLabels(InspectLabels(container_id)) THEN m
        ELSE process(ContainerInfo(container_id, host, InspectLabels(container_id),
                                   InspectPorts(container_id)))

\* DockerMonitor._handle_container_start
HandleContainerStart(m, up, host, container_id) ==
    LET process(container) ==
            IF ~ContainerIsValid(container) THEN m
            ELSE AddRoutes(Store(m, container), up, container)
    IN  IF ~CanInspect(host, container_id) THEN m
        ELSE IF ~HasRevpLabels(InspectLabels(container_id)) THEN m
        ELSE process(ContainerInfo(container_id, host, InspectLabels(container_id),
                                   InspectPorts(container_id)))

\* a search that settles on the first key of the table when the id matches none
StopKeyAny(m, container_id) ==
    LET match(x) == StartsWith(x.container_id, First12(container_id))
        found == Filter(match, m.containers)
    IN  IF container_id \in TableKeys(m) THEN container_id
        ELSE IF found # <<>> THEN found[1].container_id
        ELSE IF m.containers # <<>> THEN m.containers[1].container_id
        ELSE None

\* the table key the stop handler settles on: the id itself, or the first key
\* that starts with its first 12 characters; None when there is none
StopKey(m, container_id) ==
    LET match(x) == StartsWith(x.container_id, First12(container_id))
        found == Filter(match, m.containers)
    IN  IF container_id \in TableKeys(m) THEN container_id
        ELSE IF found # <<>> THEN found[1].container_id
        ELSE None

\* DockerMonitor._handle_container_stop
HandleContainerStop(m, up, container_id) ==
    LET stop(key) == IF key = None THEN m
                     ELSE Drop(RemoveRoute(m, up, Tracked(m, key)), key)
    IN  stop(StopKey(m, container_id))

\* a dispatch that restarts by running the start handler before the stop handler
HandleEventStartFirst(m, up, host, event) ==
    LET action == event[1]
        container_id == event[2]
    IN  IF container_id = "" THEN m
        ELSE IF action \in {"start", "unpause"}
             THEN HandleContainerStart(m, up, host, container_id)
        ELSE IF action \in {"stop", "pause", "die", "kill"}
             THEN HandleContainerStop(m, up, container_id)
        ELSE IF action = "restart"
             THEN HandleContainerStop(HandleContainerStart(m, up, host, container_id), up,
                                      container_id)
        ELSE m

\* DockerMonitor._handle_event
HandleEvent(m, up, host, event) ==
    LET action == event[1]
        container_id == event[2]
    IN  IF container_id = "" THEN m
        ELSE IF action \in {"start", "unpause"}
             THEN HandleContainerStart(m, up, host, container_id)
        ELSE IF action \in {"stop", "pause", "die", "kill"}
             THEN HandleContainerStop(m, up, container_id)
        ELSE IF action = "restart"
             THEN HandleContainerStart(HandleContainerStop(m, up, container_id), up, host,
                                       container_id)
        ELSE m

\* the @ids get_current_config shows under the revp_route_ prefix, on every server
CurrentRoutes(m, up) ==
    IF ~up THEN {}
    ELSE {r.id : r \in {x \in Range(m.srv0) \cup Range(m.srv1) : x.id[1] = "revp_route"}}

\* DockerMonitor._check_and_restore_routes
CheckAndRestoreRoutes(m, up) ==
    LET restore(acc, container) ==
            LET one(a, service) ==
                    IF RouteId(container.container_id, service.port) \in CurrentRoutes(m, up)
                    THEN a
                    ELSE Caught(AddRoute(a, up, container, service))
            IN  Fold(one, acc, ValidServices(container))
    IN  IF m.containers = <<>> THEN m
        ELSE Fold(restore, m, m.containers)

\* a sweep that processes every listed container, tracked or not
ReconcileHostAlways(acc, up, host) ==
    LET one(a, container_id) ==
            [ m |-> HandleContainerStart(a.m, up, host, container_id),
              seen |-> a.seen \cup {container_id} ]
    IN  IF ~hostUp[host] THEN acc
        ELSE Fold(one, acc, ListContainers(host))

\* DockerMonitor._reconcile_host; acc is [m, seen]
ReconcileHost(acc, up, host) ==
    LET one(a, container_id) ==
            [ m |-> IF container_id \notin TableKeys(a.m)
                    THEN HandleContainerStart(a.m, up, host, container_id)
                    ELSE a.m,
              seen |-> a.seen \cup {container_id} ]
    IN  IF ~hostUp[host] THEN acc
        ELSE Fold(one, acc, ListContainers(host))

\* the label test of _force_route_creation: any key under snadboy.revp.
HasRevpPrefix(with_labels) ==
    \E i \in 1..Len(with_labels) :
        LET k == with_labels[i][1] IN Len(k) >= 3 /\ k[1] = "snadboy" /\ k[2] = "revp"

\* DockerMonitor._force_route_creation
ForceRouteCreation(m, up) ==
    LET perHost(acc, host) ==
            LET one(a, container_id) ==
                    IF HasRevpPrefix(InspectLabels(container_id))
                    THEN HandleContainerStart(a, up, host, container_id)
                    ELSE a
            IN  IF ~hostUp[host] THEN acc
                ELSE Fold(one, acc, ListContainers(host))
    IN  Fold(perHost, m, HostOrder)

\* a sweep that gives up as soon as the listing of one host fails
ReconcileAllHostsTogether(m, up) ==
    LET perHost(acc, host) == ReconcileHost(acc, up, host)
        force(m1) == IF m1.containers = <<>> THEN ForceRouteCreation(m1, up) ELSE m1
        cull(m2, seen_containers) ==
            LET unseen(x) == x.container_id \notin seen_containers
                stop(acc, container) == HandleContainerStop(acc, up, container.container_id)
            IN  Fold(stop, m2, Filter(unseen, m2.containers))
        finish(swept) == cull(force(swept.m), swept.seen)
    IN  IF \E host \in Hosts : ~hostUp[host] THEN m
        ELSE finish(Fold(perHost, [m |-> m, seen |-> {}], HostOrder))

\* DockerMonitor._reconcile_all_hosts
ReconcileAllHosts(m, up) ==
    LET perHost(acc, host) == ReconcileHost(acc, up, host)
        force(m1) == IF m1.containers = <<>> THEN ForceRouteCreation(m1, up) ELSE m1
        cull(m2, seen_containers) ==
            LET unseen(x) == x.container_id \notin seen_containers
                stop(acc, container) == HandleContainerStop(acc, up, container.container_id)
            IN  Fold(stop, m2, Filter(unseen, m2.containers))
        finish(swept) == cull(force(swept.m), swept.seen)
    IN  finish(Fold(perHost, [m |-> m, seen |-> {}], HostOrder))

\* one pass of DockerMonitor._reconciliation_loop
Reconcile(m, up) == ReconcileAllHosts(CheckAndRestoreRoutes(m, up), up)

(***************************************************************************)
(* Startup cleanup (caddy_manager.py).                                     *)
(***************************************************************************)
\* a cleanup that also removes the routes of containers it cannot find
ShouldRemoveRouteUnverified(container_id) ==
    LET answers(h) == CanInspect(h, container_id)
    IN  Filter(answers, HostOrder) = <<>> \/ HasRevpLabels(InspectLabels(container_id))

\* CaddyManager._should_remove_route: the first host that can inspect decides
ShouldRemoveRoute(container_id) ==
    LET answers(h) == CanInspect(h, container_id)
    IN  Filter(answers, HostOrder) # <<>> /\ HasRevpLabels(InspectLabels(container_id))

\* CaddyManager.cleanup_revp_routes
CleanupRevpRoutes(m, up) ==
    LET stale(r) == r.id[1] = "revp_route" /\ ShouldRemoveRoute(r.id[2])
        keep(r) == ~stale(r)
    IN  IF ~up THEN m
        ELSE [m EXCEPT !.srv0 = Filter(keep, m.srv0), !.writes = @ + Count(stale, m.srv0)]

(***************************************************************************)
(* Inputs: the static-routes file and the proxy configuration found at     *)
(* the first start.                                                        *)
(***************************************************************************)
StaticRoute(domain, backend_url, backend_path, force_ssl, dns_resolved) ==
    [ domain |-> domain, backend_url |-> backend_url, backend_path |-> backend_path,
      force_ssl |-> force_ssl, support_websocket |-> FALSE, dns_resolved |-> dns_resolved ]

FileEmpty == <<>>
FileOne == << StaticRoute("s.x", "http://u1:9000", "/", TRUE, DnsResolved) >>
FileTwo == << StaticRoute("s_x", "https://u2:9443/base", "/api/", FALSE, DnsUnset),
              StaticRoute("s.x", "http://u1:9000", "/", TRUE, DnsFailed) >>
StaticFiles == {FileEmpty, FileOne, FileTwo}

\* routes left on the proxy by other tools and by an earlier run of the service
StaleRoute(id, host) ==
    [ id |-> id, host |-> host,
      handle |-> Handle("reverse_proxy", <<"192.0.2.10", "31999">>, "plain", "forwarded",
                        FALSE, <<>>, 0) ]

ProxyEmpty == [ srv0 |-> <<>>, srv1 |-> <<>> ]
ProxyUsed ==
    [ srv0 |-> << ForeignRoute(TenantId, "t.x"), StaleRoute(RouteId("c1", "80"), "a.x"),
                  ForeignRoute(NoId, "n.x") >>,
      srv1 |-> << ForeignRoute(NoId, "n.x") >> ]
ProxyStale ==
    [ srv0 |-> << StaleRoute(StaticRouteId("s.x"), "s.x"), ForeignRoute(TenantId, "t.x"),
                  StaleRoute(RouteId("dead", "80"), "b.x") >>,
      srv1 |-> << ForeignRoute(TenantId, "t.x") >> ]

\* what the first start finds: the proxy configuration and the static-routes file
Installations ==
    { [proxy |-> ProxyEmpty, file |-> FileTwo],
      [proxy |-> ProxyUsed, file |-> FileOne],
      [proxy |-> ProxyStale, file |-> FileEmpty],
      [proxy |-> ProxyStale, file |-> FileOne] }

(***************************************************************************)
(* The state machine.                                                      *)
(***************************************************************************)
Init ==
    /\ phase = "boot"
    /\ status = [c \in Containers |-> "gone"]
    /\ labels \in LabelChoices
    /\ hostUp = [h \in Hosts |-> TRUE]
    /\ caddyUp = TRUE
    /\ queue = [h \in Hosts |-> <<>>]
    /\ containers = <<>>
    /\ routes = [d \in Domains |-> NoOwner]
    /\ \E found \in Installations :
          /\ staticFile = found.file
          /\ srv0 = found.proxy.srv0
          /\ srv1 = found.proxy.srv1
    /\ last = [op |-> "init", id |-> "", wrote |-> FALSE]
    /\ changes = 0
    /\ StoreAtRest
    /\ CallAtRest
    /\ TasksAtRest
    /\ StepsAtRest

\* the handler's result becomes the state
Commit(m, op, id) ==
    /\ containers' = m.containers
    /\ routes' = m.routes
    /\ srv0' = m.srv0
    /\ srv1' = m.srv1
    /\ last' = [op |-> op, id |-> id, wrote |-> m.writes > 0]
    /\ UNCHANGED asideVars

\* DockerMonitorService.start, with DockerMonitor.start: static routes first,
\* then startup cleanup; an exception of the static apply ends the start
Startup ==
    LET monitor(applied) ==
            IF applied.raised
            THEN /\ Commit(Caught(applied), "startup_failed", "")
                 /\ phase' = "boot"
            ELSE /\ Commit(CleanupRevpRoutes(applied, caddyUp), "startup", "")
                 /\ phase' = "running"
    IN  /\ phase = "boot"
        /\ monitor(IF staticFile # <<>> THEN UpdateStaticRoutes(Cur, caddyUp, staticFile)
                   ELSE Cur)
        /\ UNCHANGED <<world, queue, staticFile, changes>>

\* a change of the world
Change == changes < MaxChanges /\ changes' = changes + 1
Env == last' = [op |-> "env", id |-> "", wrote |-> FALSE] /\ UNCHANGED asideVars

\* the consumer of a host's event stream reads one event
Event(h) ==
    /\ phase = "running"
    /\ queue[h] # <<>>
    /\ Commit(HandleEvent(Cur, caddyUp, h, Head(queue[h])), Head(queue[h])[1],
              Head(queue[h])[2])
    /\ queue' = [queue EXCEPT ![h] = Tail(@)]
    /\ UNCHANGED <<world, phase, staticFile, changes>>

\* one pass of the reconciliation loop; "sweep2" when it follows a pass directly
Sweep ==
    /\ phase = "running"
    /\ Commit(Reconcile(Cur, caddyUp),
              IF last.op \in {"sweep", "sweep2"} THEN "sweep2" ELSE "sweep", "")
    /\ UNCHANGED <<world, phase, queue, staticFile, changes>>

\* the file changes and the watcher's callback applies the new set
StaticReload(file) ==
    /\ Change
    /\ phase = "running"
    /\ file # staticFile
    /\ staticFile' = file
    /\ Commit(Caught(UpdateStaticRoutes(Cur, caddyUp, file)), "reload", "")
    /\ UNCHANGED <<world, phase, queue>>

\* events reported and not yet read, over all hosts
Pending == Fold(LAMBDA n, h : n + Len(queue[h]), 0, HostOrder)

\* DockerMonitorService.stop and a new process: table and ownership map start empty
ServiceRestart ==
    /\ Change
    /\ phase = "running"
    /\ phase' = "boot"
    /\ containers' = <<>>
    /\ routes' = [d \in Domains |-> NoOwner]
    /\ queue' = [h \in Hosts |-> <<>>]
    /\ last' = [op |-> "stop", id |-> "", wrote |-> FALSE]
    /\ UNCHANGED <<world, staticFile, srv0, srv1, asideVars>>

\* the runtime reports a container event when the host's stream is connected
Emit(c, action) ==
    IF phase = "running" /\ hostUp[HostOf(c)]
    THEN /\ Pending < MaxQueue
         /\ queue' = [queue EXCEPT ![HostOf(c)] = Append(@, <<action, FullId(c)>>)]
    ELSE UNCHANGED queue

ContainerChange(c, from, to, action) ==
    /\ status[c] \in from
    /\ status' = [status EXCEPT ![c] = to]
    /\ Emit(c, action)
    /\ Change /\ Env
    /\ UNCHANGED <<labels, hostUp, caddyUp, phase, staticFile, containers, routes, srv0, srv1>>

ContainerStart(c) == ContainerChange(c, {"gone", "exited"}, "running", "start")
ContainerDie(c) == ContainerChange(c, {"running"}, "exited", "die")
ContainerRestart(c) == ContainerChange(c, {"running"}, "running", "restart")
\* a destroy event is one the handler ignores; it is not queued
ContainerDestroy(c) ==
    /\ status[c] = "exited"
    /\ status' = [status EXCEPT ![c] = "gone"]
    /\ Change /\ Env
    /\ UNCHANGED <<labels, hostUp, caddyUp, phase, queue, staticFile, containers, routes,
                   srv0, srv1>>

\* the hosts whose connection fails at times
FlakyHosts == {"h1"}

HostToggle(h) ==
    /\ hostUp' = [hostUp EXCEPT ![h] = ~@]
    /\ Change /\ Env
    /\ UNCHANGED <<status, labels, caddyUp, phase, queue, staticFile, containers, routes,
                   srv0, srv1>>

CaddyToggle ==
    /\ caddyUp' = ~caddyUp
    /\ Change /\ Env
    /\ UNCHANGED <<status, labels, hostUp, phase, queue, staticFile, containers, routes,
                   srv0, srv1>>

\* an outside actor deletes a container route from srv0
ExternalDelete(i) ==
    /\ Change
    /\ i \in 1..Len(srv0)
    /\ srv0[i].id[1] = "revp_route"
    /\ srv0' = RemoveAt(srv0, i)
    /\ last' = [op |-> "external_delete", id |-> srv0[i].id[2], wrote |-> FALSE]
    /\ UNCHANGED <<world, phase, queue, staticFile, containers, routes, srv1, asideVars>>

Next ==
    \/ Startup
    \/ \E h \in Hosts : Event(h)
    \/ Sweep
    \/ \E file \in StaticFiles : StaticReload(file)
    \/ \E c \in Containers : ContainerStart(c)
    \/ \E c \in Containers : ContainerDie(c)
    \/ \E c \in Containers : ContainerRestart(c)
    \/ \E c \in Containers : ContainerDestroy(c)
    \/ \E h \in FlakyHosts : HostToggle(h)
    \/ CaddyToggle
    \/ \E i \in 1..Len(srv0) : ExternalDelete(i)
    \/ ServiceRestart

Spec == Init /\ [][Next]_vars

(* The service in the middle of a proxy outage: c1 was started and its     *)
(* start event handled on an empty proxy, then the proxy stopped answering. *)
OutageInit ==
    /\ phase = "running"
    /\ status = [c \in Containers |-> IF c = "c1" THEN "running" ELSE "gone"]
    /\ labels \in LabelChoices
    /\ hostUp = [h \in Hosts |-> TRUE]
    /\ caddyUp = FALSE
    /\ queue = [h \in Hosts |-> <<>>]
    /\ staticFile = FileEmpty
    /\ \E m \in { HandleEvent([ containers |-> <<>>, srv0 |-> ProxyEmpty.srv0,
                                 srv1 |-> ProxyEmpty.srv1,
                                 routes |-> [d \in Domains |-> NoOwner],
                                 writes |-> 0, raised |-> FALSE ],
                               TRUE, HostOf("c1"), <<"start", FullId("c1")>>) } :
          /\ containers = m.containers
          /\ routes = m.routes
          /\ srv0 = m.srv0
          /\ srv1 = m.srv1
    /\ last = [op |-> "env", id |-> "", wrote |-> FALSE]
    /\ changes = 0
    /\ StoreAtRest
    /\ CallAtRest
    /\ TasksAtRest
    /\ StepsAtRest

OutageSpec == OutageInit /\ [][Next]_vars

(***************************************************************************)
(* The dispatch of events: DispatchSpec feeds the consumer of h1 with      *)
(* events of every action for container c1, tracked or not, inspectable or *)
(* not, and with events that carry no id.  It starts after the start       *)
(* events of some of the running containers were handled.                  *)
(***************************************************************************)
\* events reported in a run
MaxEvents == 2

\* the Action values of the container events of the runtime that the model
\* reports; "destroy" stands for every action the dispatch does not name
EventActions == {"start", "unpause", "stop", "pause", "die", "kill", "restart", "destroy"}

\* the label maps of the two containers: those of LabelChoices, and c1 with
\* labels that declare no domain, or no revp key at all
DispatchLabels ==
    LabelChoices \cup { ("c1" :> LabelsNoDomain) @@ ("c2" :> LabelsPlain),
                        ("c1" :> LabelsMalformed) @@ ("c2" :> LabelsTwo) }

DispatchInit ==
    /\ phase = "running"
    /\ labels \in DispatchLabels
    /\ hostUp = [h \in Hosts |-> TRUE]
    /\ caddyUp \in BOOLEAN
    /\ queue = [h \in Hosts |-> <<>>]
    /\ staticFile = FileEmpty
    /\ \E handled \in SUBSET Containers, other \in {"running", "gone"} :
         /\ status = [c \in Containers |-> IF c \in handled THEN "running"
                                            ELSE IF c = "c1" THEN other ELSE "gone"]
         /\ LET empty == [ containers |-> <<>>, srv0 |-> ProxyEmpty.srv0,
                           srv1 |-> ProxyEmpty.srv1,
                           routes |-> [d \in Domains |-> NoOwner],
                           writes |-> 0, raised |-> FALSE ]
                step(acc, c) ==
                    IF c \in handled
                    THEN Caught(HandleEvent(acc, TRUE, HostOf(c), <<"start", FullId(c)>>))
                    ELSE acc
                m == Fold(step, empty, ContainerOrder)
            IN  /\ containers = m.containers
                /\ routes = m.routes
                /\ srv0 = m.srv0
                /\ srv1 = m.srv1
    /\ last = [op |-> "env", id |-> "", wrote |-> FALSE]
    /\ changes = 0
    /\ StoreAtRest
    /\ CallAtRest
    /\ TasksAtRest
    /\ StepsAtRest

\* `docker events` on the host of c1 prints one more line
Report(action, container_id) ==
    /\ changes < MaxEvents
    /\ changes' = changes + 1
    /\ queue' = [queue EXCEPT ![HostOf("c1")] = Append(@, <<action, container_id>>)]
    /\ Env
    /\ UNCHANGED <<world, phase, staticFile, containers, routes, srv0, srv1>>

DispatchNext ==
    \/ \E action \in EventActions, container_id \in {FullId("c1"), ""} :
           Report(action, container_id)
    \/ \E h \in Hosts : Event(h)

DispatchSpec == DispatchInit /\ [][DispatchNext]_vars

(***************************************************************************)
(* The static route store (static_routes.py) and its CRUD endpoints        *)
(* (api/static_routes.py).  Every method is synchronous, so each runs as   *)
(* one step; between two steps the operator may edit the file by hand.     *)
(* The methods thread the record s = [routes, mtime, disk].                *)
(***************************************************************************)
\* modification times of the file are counted; they never exceed MaxMtime
MaxMtime == 4
\* _file_mtime before the first load
NoMtime == 0

\* route domains as a client or the operator may write them
RawDomains == {"s.x", "s_x", "s.x "}
\* str.strip() of the validators of StaticRoute
Strip(v) == IF v = "s.x " THEN "s.x" ELSE v
\* StaticRoute(**data): the field validators return the stripped value
Validate(route_data) == [route_data EXCEPT !.domain = Strip(@)]
\* StaticRoutesConfig(**data): every entry of static_routes is validated
Parsed(entries) == [i \in 1..Len(entries) |-> Validate(entries[i])]

\* any(existing.domain == domain for existing in routes_list)
HasDomain(routes_list, domain) ==
    \E i \in 1..Len(routes_list) : routes_list[i].domain = domain

\* StaticRoutesManager.load_routes: the new state and the list returned
LoadRoutes(s) ==
    IF s.disk.kind = "missing" THEN [s |-> [s EXCEPT !.routes = <<>>], out |-> <<>>]
    ELSE IF s.mtime = s.disk.mtime /\ s.routes # <<>> THEN [s |-> s, out |-> s.routes]
    ELSE IF s.disk.kind = "empty" THEN [s |-> [s EXCEPT !.routes = <<>>], out |-> <<>>]
    ELSE IF s.disk.kind = "invalid" THEN [s |-> s, out |-> <<>>]
    ELSE [ s |-> [s EXCEPT !.routes = Parsed(s.disk.routes), !.mtime = s.disk.mtime],
           out |-> Parsed(s.disk.routes) ]

\* StaticRoutesManager.save_routes; writable: _write_file_atomic succeeds
SaveRoutes(s, routes_list, writable) ==
    IF writable
    THEN [ s |-> [ routes |-> routes_list,
                   mtime |-> s.disk.mtime + 1,
                   disk |-> [kind |-> "valid", routes |-> routes_list,
                             mtime |-> s.disk.mtime + 1] ],
           ok |-> TRUE ]
    ELSE [s |-> s, ok |-> FALSE]

\* StaticRoutesManager.add_route
StoreAddRoute(s, route, writable) ==
    LET add(loaded) ==
            IF HasDomain(loaded.out, route.domain) THEN [s |-> loaded.s, ok |-> FALSE]
            ELSE SaveRoutes(loaded.s, Append(loaded.out, route), writable)
    IN  add(LoadRoutes(s))

\* StaticRoutesManager.update_route; the conflict test is the source's: it looks
\* for the new domain among the routes whose domain is not the new domain
StoreUpdateRoute(s, domain, updated_route, writable) ==
    LET update(loaded) ==
            LET updated_routes ==
                    [i \in 1..Len(loaded.out) |->
                        IF loaded.out[i].domain = domain THEN updated_route
                        ELSE loaded.out[i]]
            IN  IF ~HasDomain(loaded.out, domain) THEN [s |-> loaded.s, ok |-> FALSE]
                ELSE IF /\ updated_route.domain # domain
                        /\ \E i \in 1..Len(updated_routes) :
                               /\ updated_routes[i].domain # updated_route.domain
                               /\ updated_routes[i].domain = updated_route.domain
                     THEN [s |-> loaded.s, ok |-> FALSE]
                ELSE SaveRoutes(loaded.s, updated_routes, writable)
    IN  update(LoadRoutes(s))

\* a delete that saves the filtered list whether or not a route was found
StoreDeleteRouteAlways(s, domain, writable) ==
    LET delete(loaded) ==
            LET keep(route) == route.domain # domain
            IN  SaveRoutes(loaded.s, Filter(keep, loaded.out), writable)
    IN  delete(LoadRoutes(s))

\* StaticRoutesManager.delete_route
StoreDeleteRoute(s, domain, writable) ==
    LET delete(loaded) ==
            LET keep(route) == route.domain # domain
            IN  IF Len(Filter(keep, loaded.out)) = Len(loaded.out)
                THEN [s |-> loaded.s, ok |-> FALSE]
                ELSE SaveRoutes(loaded.s, Filter(keep, loaded.out), writable)
    IN  delete(LoadRoutes(s))

\* Optional[StaticRoute]: None is the empty sequence, a route the sequence of it
NoRoute == <<>>

\* StaticRoutesManager.get_route_by_domain: the new state and the route or None
GetRouteByDomain(s, domain) ==
    LET find(loaded) ==
            LET is(route) == route.domain = domain
            IN  [ s |-> loaded.s,
                  out |-> IF HasDomain(loaded.out, domain)
                          THEN <<Filter(is, loaded.out)[1]>> ELSE NoRoute ]
    IN  find(LoadRoutes(s))

\* create_static_route (POST): the state and the HTTP status
CreateStaticRoute(s, route_data, writable) ==
    LET create(existing) ==
            LET added(r) == [s |-> r.s, status |-> IF r.ok THEN 201 ELSE 500]
            IN  IF existing.out # NoRoute THEN [s |-> existing.s, status |-> 409]
                ELSE added(StoreAddRoute(existing.s, Validate(route_data), writable))
    IN  create(GetRouteByDomain(s, route_data.domain))

\* update_static_route (PUT /{domain})
UpdateStaticRoute(s, domain, route_data, writable) ==
    LET put(s1) ==
            LET updated(r) == [s |-> r.s, status |-> IF r.ok THEN 200 ELSE 500]
            IN  updated(StoreUpdateRoute(s1, domain, Validate(route_data), writable))
        conflict(existing_new) ==
            IF existing_new.out # NoRoute THEN [s |-> existing_new.s, status |-> 409]
            ELSE put(existing_new.s)
        found(existing) ==
            IF existing.out = NoRoute THEN [s |-> existing.s, status |-> 404]
            ELSE IF domain # route_data.domain
                 THEN conflict(GetRouteByDomain(existing.s, route_data.domain))
            ELSE put(existing.s)
    IN  found(GetRouteByDomain(s, domain))

\* delete_static_route (DELETE /{domain})
DeleteStaticRoute(s, domain, writable) ==
    LET found(existing) ==
            LET deleted(r) == [s |-> r.s, status |-> IF r.ok THEN 204 ELSE 500]
            IN  IF existing.out = NoRoute THEN [s |-> existing.s, status |-> 404]
                ELSE deleted(StoreDeleteRoute(existing.s, domain, writable))
    IN  found(GetRouteByDomain(s, domain))

\* the routes a client sends
RouteData == {StaticRoute(domain, url, "/", TRUE, DnsUnset) : domain \in RawDomains, url \in Urls}
\* the StaticRoute objects a caller of the store holds
Routes == {Validate(route_data) : route_data \in RouteData}

\* what the file may hold after the operator edited it; no domain twice
DiskContents ==
    { [kind |-> "missing", routes |-> <<>>],
      [kind |-> "empty", routes |-> <<>>],
      [kind |-> "invalid", routes |-> <<>>],
      [kind |-> "valid", routes |-> <<>>],
      [kind |-> "valid", routes |-> <<StaticRoute("s.x ", "http://u1:9000", "/", TRUE, DnsUnset)>>],
      [kind |-> "valid", routes |-> <<StaticRoute("s_x", "http://u1:9000", "/", TRUE, DnsUnset),
                                      StaticRoute("s.x", "https://u2:9443/base", "/", TRUE,
                                                  DnsUnset)>>] }

\* the store before an operation
CurStore == [routes |-> store_routes, mtime |-> store_mtime, disk |-> disk]

\* the variables of Spec do not move
MainAtRest ==
    /\ phase = "boot"
    /\ status = [c \in Containers |-> "gone"]
    /\ labels = ("c1" :> LabelsPlain) @@ ("c2" :> LabelsSameDomain)
    /\ hostUp = [h \in Hosts |-> TRUE]
    /\ caddyUp = TRUE
    /\ queue = [h \in Hosts |-> <<>>]
    /\ containers = <<>>
    /\ routes = [d \in Domains |-> NoOwner]
    /\ staticFile = FileEmpty
    /\ srv0 = <<>>
    /\ srv1 = <<>>
    /\ last = [op |-> "init", id |-> "", wrote |-> FALSE]
    /\ changes = 0

StoreInit ==
    /\ MainAtRest
    /\ store_routes = <<>>
    /\ store_mtime = NoMtime
    /\ \E content \in DiskContents :
           disk = [kind |-> content.kind, routes |-> content.routes, mtime |-> 1]
    /\ reply = [op |-> "init", domain |-> "", route |-> <<>>, ok |-> TRUE, status |-> 0]
    /\ CallAtRest
    /\ TasksAtRest
    /\ StepsAtRest

\* the outcome r of a store method or of an endpoint becomes the state; a
\* method answers True or False, an endpoint with an HTTP status
StoreCommit(r, op, domain, route) ==
    /\ disk.mtime < MaxMtime
    /\ store_routes' = r.s.routes
    /\ store_mtime' = r.s.mtime
    /\ disk' = r.s.disk
    /\ reply' = [ op |-> op, domain |-> domain, route |-> route,
                  ok |-> IF "status" \in DOMAIN r THEN r.status < 400
                         ELSE IF "ok" \in DOMAIN r THEN r.ok ELSE TRUE,
                  status |-> IF "status" \in DOMAIN r THEN r.status ELSE 0 ]
    /\ UNCHANGED <<mainVars, callVars, taskVars, stepVars>>

\* get_routes, as list_static_routes calls it
StoreGet ==
    StoreCommit(LoadRoutes(CurStore), "get", "", NoRoute)

StoreAdd(route, writable) ==
    StoreCommit(StoreAddRoute(CurStore, route, writable), "add", route.domain, <<route>>)

StoreUpdate(domain, route, writable) ==
    StoreCommit(StoreUpdateRoute(CurStore, domain, route, writable), "update", domain, <<route>>)

StoreDelete(domain, writable) ==
    StoreCommit(StoreDeleteRoute(CurStore, domain, writable), "delete", domain, NoRoute)

ApiCreate(route_data, writable) ==
    StoreCommit(CreateStaticRoute(CurStore, route_data, writable), "add",
                route_data.domain, <<Validate(route_data)>>)

ApiUpdate(domain, route_data, writable) ==
    StoreCommit(UpdateStaticRoute(CurStore, domain, route_data, writable), "update",
                domain, <<Validate(route_data)>>)

ApiDelete(domain, writable) ==
    StoreCommit(DeleteStaticRoute(CurStore, domain, writable), "delete", domain, NoRoute)

\* the operator rewrites, empties or removes the file
ExternalEdit(content) ==
    /\ disk.mtime < MaxMtime
    /\ [kind |-> disk.kind, routes |-> disk.routes] # content
    /\ disk' = [kind |-> content.kind, routes |-> content.routes, mtime |-> disk.mtime + 1]
    /\ reply' = [op |-> "edit", domain |-> "", route |-> NoRoute, ok |-> TRUE, status |-> 0]
    /\ UNCHANGED <<store_routes, store_mtime, mainVars, callVars, taskVars, stepVars>>

StoreNext ==
    \/ StoreGet
    \/ \E route \in Routes, writable \in BOOLEAN : StoreAdd(route, writable)
    \/ \E domain \in RawDomains, route \in Routes, writable \in BOOLEAN :
           StoreUpdate(domain, route, writable)
    \/ \E domain \in RawDomains, writable \in BOOLEAN : StoreDelete(domain, writable)
    \/ \E route_data \in RouteData, writable \in BOOLEAN : ApiCreate(route_data, writable)
    \/ \E domain \in RawDomains, route_data \in RouteData, writable \in BOOLEAN :
           ApiUpdate(domain, route_data, writable)
    \/ \E domain \in RawDomains, writable \in BOOLEAN : ApiDelete(domain, writable)
    \/ \E content \in DiskContents : ExternalEdit(content)

StoreSpec == StoreInit /\ [][StoreNext]_vars

(***************************************************************************)
(* The hot reload: the file watcher reloads the store from the file and    *)
(* hands the outcome to the proxy driver.  ReloadSpec starts with a file   *)
(* that holds routes, loaded and applied by the service's start.           *)
(***************************************************************************)
\* DockerMonitorService.start: get_routes(), then update_static_routes when
\* the list is not empty; the proxy held nothing before
ReloadInit ==
    \E content \in DiskContents :
        /\ content.kind = "valid" /\ content.routes # <<>>
        /\ LET file == [kind |-> content.kind, routes |-> content.routes, mtime |-> 1]
               loaded == LoadRoutes([routes |-> <<>>, mtime |-> NoMtime, disk |-> file])
               applied == UpdateStaticRoutes(
                              [ containers |-> <<>>, srv0 |-> <<>>, srv1 |-> <<>>,
                                routes |-> [d \in Domains |-> NoOwner],
                                writes |-> 0, raised |-> FALSE ],
                              TRUE, loaded.out)
           IN  /\ disk = file
               /\ store_routes = loaded.s.routes
               /\ store_mtime = loaded.s.mtime
               /\ srv0 = applied.srv0
               /\ srv1 = applied.srv1
               /\ routes = applied.routes
        /\ reply = [op |-> "init", domain |-> "", route |-> <<>>, ok |-> TRUE, status |-> 0]
        /\ phase = "running"
        /\ status = [c \in Containers |-> "gone"]
        /\ labels = ("c1" :> LabelsPlain) @@ ("c2" :> LabelsSameDomain)
        /\ hostUp = [h \in Hosts |-> TRUE]
        /\ caddyUp = TRUE
        /\ queue = [h \in Hosts |-> <<>>]
        /\ containers = <<>>
        /\ staticFile = FileEmpty
        /\ last = [op |-> "init", id |-> "", wrote |-> FALSE]
        /\ changes = 0
        /\ CallAtRest
        /\ TasksAtRest
        /\ StepsAtRest

\* StaticRoutesManager._trigger_reload after the file was modified:
\* load_routes(), then DockerMonitorService._on_static_routes_changed with the
\* list it returned, which calls update_static_routes
HotReload ==
    /\ reply.op = "edit"
    /\ LET loaded == LoadRoutes(CurStore)
           m == Caught(UpdateStaticRoutes(Cur, caddyUp, loaded.out))
       IN  /\ store_routes' = loaded.s.routes
           /\ store_mtime' = loaded.s.mtime
           /\ containers' = m.containers
           /\ routes' = m.routes
           /\ srv0' = m.srv0
           /\ srv1' = m.srv1
           /\ last' = [op |-> "hot_reload", id |-> "", wrote |-> m.writes > 0]
    /\ reply' = [op |-> "reload", domain |-> "", route |-> NoRoute, ok |-> TRUE, status |-> 0]
    /\ UNCHANGED <<disk, phase, world, queue, staticFile, changes,
                   callVars, taskVars, stepVars>>

ReloadNext ==
    \/ \E content \in DiskContents : ExternalEdit(content)
    \/ HotReload
    \/ CaddyToggle

ReloadSpec == ReloadInit /\ [][ReloadNext]_vars

(***************************************************************************)
(* Properties.                                                             *)
(***************************************************************************)
RevpPrefixes ==
    {"revp_route", "revp_static_route", "revp_http_redirect", "revp_static_http_redirect"}

\* a route whose @id is absent or carries none of the driver's prefixes
Foreign(r) == r.id[1] \notin RevpPrefixes
ForeignRoutes(rs) == Filter(Foreign, rs)

\* how often a route occurs in a routes array
Occurrences(r, rs) == LET same(x) == x = r IN Count(same, rs)

Verifiable(cid) ==
    \E c \in Containers :
        /\ cid \in {FullId(c), ShortId(c)}
        /\ status[c] # "gone"
        /\ hostUp[HostOf(c)]
        /\ \E i \in 1..Len(labels[c]) : IsRevpKey(labels[c][i][1])

\* the step is a start of the service that reached startup cleanup
StartupStep == phase = "boot" /\ phase' = "running"

DeclaredServices(c) ==
    IF status[c] = "running" /\ HasRevpLabels(labels[c])
    THEN ValidServices([services |-> ParseServices(labels[c])])
    ELSE <<>>

\* the route is the container route or the redirect of a declared service of a
\* running container
OfRunningService(r) ==
    \E c \in Containers : \E i \in 1..Len(DeclaredServices(c)) :
        /\ r.id[2] \in {FullId(c), ShortId(c)}
        /\ r.id[3] = DeclaredServices(c)[i].port
        /\ r.host = DeclaredServices(c)[i].domain

\* the route is the static route or the static redirect of a static route of
\* the file whose DNS validation has not failed
OfCurrentStaticRoute(r) ==
    \E i \in 1..Len(staticFile) :
        /\ staticFile[i].dns_resolved # DnsFailed
        /\ r.id[2] = DotsToUnderscores(staticFile[i].domain)
        /\ r.host = staticFile[i].domain

\* no route with a revp prefix is stale
NoStaleRoute ==
    \A r \in Range(srv0) \cup Range(srv1) :
        /\ r.id[1] \in {"revp_route", "revp_http_redirect"} => OfRunningService(r)
        /\ r.id[1] \in {"revp_static_route", "revp_static_http_redirect"}
               => OfCurrentStaticRoute(r)

\* every declared service of a running container and every static route that
\* resolves has its route on srv0
ExpectedRoutesPresent ==
    /\ \A c \in Containers : \A i \in 1..Len(DeclaredServices(c)) :
           \E r \in Range(srv0) :
               /\ r.id[1] = "revp_route"
               /\ r.id[2] \in {FullId(c), ShortId(c)}
               /\ r.id[3] = DeclaredServices(c)[i].port
               /\ r.host = DeclaredServices(c)[i].domain
    /\ \A i \in 1..Len(staticFile) :
           staticFile[i].dns_resolved # DnsFailed =>
               \E r \in Range(srv0) :
                   r.id = StaticRouteId(staticFile[i].domain) /\ r.host = staticFile[i].domain

\* a sweep has just run with every host and the proxy reachable and no event
\* waiting: the containers and static routes it saw are those of this state
AfterStableSweep ==
    /\ last.op \in {"sweep", "sweep2"}
    /\ caddyUp
    /\ \A h \in Hosts : hostUp[h] /\ queue[h] = <<>>

\* C3: after one sweep over a stable set of running containers and static
\* routes, with all hosts and the proxy reachable, the proxy holds the
\* expected revp routes of every valid container service and of every static
\* route that resolves, and no stale revp route.
C3_Convergence == AfterStableSweep => (ExpectedRoutesPresent /\ NoStaleRoute)

\* C4: a reconcile pass that directly follows a reconcile pass, with no change
\* of containers, static routes or proxy in between, issues no write to the
\* proxy.
C4_SecondPassWritesNothing == last.op = "sweep2" => ~last.wrote

\* C4: a second pass has run directly after a first one, with the proxy
\* reachable, while a container is tracked and its route is on srv0.
C4_Witness ==
    /\ last.op = "sweep2"
    /\ caddyUp
    /\ \E i \in 1..Len(containers) : \E j \in 1..Len(ValidServices(containers[i])) :
           \E r \in Range(srv0) :
               r.id = RouteId(containers[i].container_id,
                              ValidServices(containers[i])[j].port)

\* the consumer of the container's host handles the event <<action, full id>>
Handled(action, c) ==
    \E h \in Hosts :
        /\ phase = "running"
        /\ queue[h] # <<>>
        /\ Head(queue[h]) = <<action, FullId(c)>>
        /\ queue' = [queue EXCEPT ![h] = Tail(@)]
        /\ last'.op = action

\* the container routes and redirects in rs that carry the container id
RoutesOf(cid, rs) ==
    {r \in Range(rs) : r.id[1] \in {"revp_route", "revp_http_redirect"} /\ r.id[2] = cid}

\* what the label parser and the port table make of a running container
Inspected(c) == ContainerInfo(FullId(c), HostOf(c), labels[c], PortBindings(c))

\* the routes the parser-derived valid services of the container call for
DerivedRoutes(c) ==
    {CreateRouteConfig(Inspected(c), service) : service \in Range(ValidServices(Inspected(c)))}

\* the redirects the parser-derived valid services with force-ssl call for
DerivedRedirects(c) ==
    {CreateHttpRedirectConfig(service.domain, FullId(c), service.port) :
        service \in {x \in Range(ValidServices(Inspected(c))) : x.force_ssl}}

\* the start event of a running container is handled, host and proxy reachable
StartHandled(c) ==
    Handled("start", c) /\ caddyUp /\ hostUp[HostOf(c)] /\ status[c] = "running"

\* every route of rs outside gone is in after as often as in rs
OthersKept(gone, rs, after) ==
    \A r \in Range(rs) \ gone : Occurrences(r, after) = Occurrences(r, rs)

\* C5: for a container whose labels declare the valid services S, the routes
\* the start handler installs are those derived from S by the label parser,
\* and stopping the container removes exactly those routes: none of its routes
\* remains and no other route is removed.
C5_RoundTrip ==
    [][ \A c \in Containers :
          /\ StartHandled(c)
                => /\ RoutesOf(FullId(c), srv0') = DerivedRoutes(c)
                   /\ RoutesOf(FullId(c), srv1') = DerivedRedirects(c)
          /\ (Handled("die", c) /\ caddyUp /\ FullId(c) \in TableKeys(Cur))
                => /\ RoutesOf(FullId(c), srv0') = {}
                   /\ RoutesOf(FullId(c), srv1') = {}
                   /\ OthersKept(RoutesOf(FullId(c), srv0), srv0, srv0')
                   /\ OthersKept(RoutesOf(FullId(c), srv1), srv1, srv1') ]_vars

\* no other container exists and the proxy holds no route of another container
Alone(c) ==
    /\ \A d \in Containers \ {c} : status[d] = "gone"
    /\ \A r \in Range(srv0) \cup Range(srv1) :
           r.id[1] \in {"revp_route", "revp_http_redirect"}
               => r.id[2] \in {FullId(c), ShortId(c)}

\* C6: after the start handler ran for a container with a valid force-ssl
\* service on port p, srv0 holds revp_route_<cid>_<p> matching the domain and
\* dialing host_ip:resolved host port and srv1 holds
\* revp_http_redirect_<cid>_<p> answering 308; after a later die event both
\* are absent from the proxy.
C6_Lifecycle ==
    [][ \A c \in Containers :
          /\ (StartHandled(c) /\ Alone(c))
                => \A service \in Range(ValidServices(Inspected(c))) :
                       (service.force_ssl /\ service.resolved_host_port # None)
                           => /\ \E r \in Range(srv0') :
                                     /\ r.id = RouteId(FullId(c), service.port)
                                     /\ r.host = service.domain
                                     /\ r.handle.dial = <<HostIp(HostOf(c)),
                                                          service.resolved_host_port>>
                              /\ \E r \in Range(srv1') :
                                     /\ r.id = RedirectId(FullId(c), service.port)
                                     /\ r.handle.status_code = RedirectStatus
          /\ (Handled("die", c) /\ caddyUp /\ Alone(c))
                => /\ RoutesOf(FullId(c), srv0') = {}
                   /\ RoutesOf(FullId(c), srv1') = {} ]_vars

\* the ports for which the labels ask for a cloudflare tunnel and give a domain
TunnelPorts(c) ==
    {p \in {"80", "81"} :
        /\ \E i \in 1..Len(labels[c]) : labels[c][i] = <<Key(p, "cloudflare-tunnel"), "true">>
        /\ \E i \in 1..Len(labels[c]) : labels[c][i][1] = Key(p, "domain")}

\* C7: when a service carries the label cloudflare-tunnel=true, after the
\* start handler srv0 and srv1 both carry the reverse-proxy route
\* revp_route_<cid>_<p> and srv1 carries no revp_http_redirect_<cid>_<p>.
C7_TunnelRoutes ==
    [][ \A c \in Containers : \A p \in TunnelPorts(c) :
          StartHandled(c)
              => /\ \E r \in Range(srv0') :
                        r.id = RouteId(FullId(c), p) /\ r.handle.handler = "reverse_proxy"
                 /\ \E r \in Range(srv1') :
                        r.id = RouteId(FullId(c), p) /\ r.handle.handler = "reverse_proxy"
                 /\ \A r \in Range(srv1') : r.id # RedirectId(FullId(c), p) ]_vars

\* a reconcile pass runs
SweepStep == phase = "running" /\ last'.op \in {"sweep", "sweep2"}

\* the table entry is that of a running container
EntryRunning(container) ==
    \E c \in Containers :
        container.container_id \in {FullId(c), ShortId(c)} /\ status[c] = "running"

\* C8: when the revp_route_ of a tracked, running container was deleted from
\* the proxy by an outside actor, the next sweep, with every host and the
\* proxy reachable, leaves the route installed with the content the start
\* handler gave it.
C8_SweepRestores ==
    [][ \A i \in 1..Len(containers) :
          ( /\ last.op = "external_delete"
            /\ last.id = containers[i].container_id
            /\ EntryRunning(containers[i])
            /\ caddyUp
            /\ \A h \in Hosts : hostUp[h]
            /\ SweepStep )
              => \A service \in Range(ValidServices(containers[i])) :
                     CreateRouteConfig(containers[i], service) \in Range(srv0') ]_vars

\* the static routes were applied by the step that led here: at startup
\* (completed or failed) when the set is not empty, or on a change of the file
StaticApplied ==
    \/ last.op = "reload"
    \/ last.op \in {"startup", "startup_failed"} /\ staticFile # <<>>

\* srv0 holds no static route for a static route whose DNS validation failed
NoRouteOfFailedDns ==
    \A i \in 1..Len(staticFile) :
        staticFile[i].dns_resolved = DnsFailed
            => \A r \in Range(srv0) :
                   ~(r.id = StaticRouteId(staticFile[i].domain) /\ r.host = staticFile[i].domain)

StaticRoutesOn(rs) ==
    LET static(r) == r.id[1] = "revp_static_route"
        summary(r) == <<r.id, r.host>>
    IN  [i \in 1..Len(Filter(static, rs)) |-> summary(Filter(static, rs)[i])]

\* the @id and host of the current static routes whose DNS validation has not failed
StaticRoutesWanted ==
    LET resolves(static_route) == static_route.dns_resolved # DnsFailed
    IN  [i \in 1..Len(Filter(resolves, staticFile)) |->
            <<StaticRouteId(Filter(resolves, staticFile)[i].domain),
              Filter(resolves, staticFile)[i].domain>>]

\* C10: at startup and on every change of the static routes file, for every
\* current set including the empty one, after the apply with the proxy
\* reachable the revp_static_route_ routes on srv0 are exactly one per current
\* static route whose dns_resolved is not false, and none of a route no longer
\* in the set remains.
C10_WipeThenAdd ==
    (last.op \in {"startup", "reload"} /\ caddyUp)
        => /\ Range(StaticRoutesOn(srv0)) = Range(StaticRoutesWanted)
           /\ Len(StaticRoutesOn(srv0)) = Len(StaticRoutesWanted)


\* the keys of the container table
TrackedIds == {containers[i].container_id : i \in 1..Len(containers)}

\* the table has an entry for the container, under its full or its short id
IsTracked(c) == TrackedIds \cap {FullId(c), ShortId(c)} # {}

\* the routes rs hold a container route that carries an id of the container
Routed(c, rs) ==
    \E r \in Range(rs) : r.id[1] = "revp_route" /\ r.id[2] \in {FullId(c), ShortId(c)}

\* the container's host answers while another host does not
OtherHostFailing(c) ==
    hostUp[HostOf(c)] /\ \E g \in Hosts \ {HostOf(c)} : ~hostUp[g]

\* the ownership map names the container, under its full id, for each of its domains
Owns(c) ==
    \A service \in Range(ValidServices(Inspected(c))) :
        routes[service.domain] = ContainerOwner(FullId(c), service.port)

\* C16: while another host's stream and listing fail, the consumer and the
\* sweep still serve a container of a reachable host: its start event tracks
\* it and installs its routes, its die event drops it and removes the routes
\* it owns, and a sweep tracks it when it runs.
C16_HostIsolation ==
    [][ \A c \in Containers :
          OtherHostFailing(c) =>
            /\ (Handled("start", c) /\ status[c] = "running" /\ ContainerIsValid(Inspected(c)))
                  => /\ FullId(c) \in TrackedIds'
                     /\ caddyUp => DerivedRoutes(c) \subseteq Range(srv0')
            /\ (Handled("die", c) /\ FullId(c) \in TrackedIds)
                  => /\ FullId(c) \notin TrackedIds'
                     /\ (caddyUp /\ Owns(c))
                           => \A r \in DerivedRoutes(c) \cap Range(srv0) :
                                 Occurrences(r, srv0') = Occurrences(r, srv0) - 1
            /\ (SweepStep /\ status[c] = "running" /\ ContainerIsValid(Inspected(c)))
                  => /\ IsTracked(c)'
                     /\ caddyUp => Routed(c, srv0') ]_vars

\* a container of the reachable host was started, tracked and routed, and then
\* swept, all while the other host was failing
C16_Witness ==
    /\ \E c \in Containers :
          /\ OtherHostFailing(c)
          /\ status[c] = "running"
          /\ ShortId(c) \in TrackedIds
          /\ \E r \in Range(srv0) : r.id = RouteId(ShortId(c), "80")
    /\ last.op \in {"sweep", "sweep2"}

\* the start event of a running container with a valid service is handled
\* while the proxy is unreachable
StartedDuringOutage(c) ==
    /\ Handled("start", c) /\ ~caddyUp
    /\ hostUp[HostOf(c)] /\ status[c] = "running" /\ ContainerIsValid(Inspected(c))

\* a sweep finds the running container in the table and none of its routes on srv0
SweptWithoutRoute(c) ==
    /\ SweepStep /\ IsTracked(c) /\ ~Routed(c, srv0)
    /\ status[c] = "running" /\ ContainerIsValid(Inspected(c))

\* C17: a container whose start handler runs while the proxy is unreachable
\* is in the table afterwards; a sweep keeps a tracked running container that
\* has no route in the table, and installs its route when it runs with the
\* proxy reachable.
C17_ProxyOutageOnInstall ==
    [][ \A c \in Containers :
          /\ StartedDuringOutage(c) => FullId(c) \in TrackedIds'
          /\ SweptWithoutRoute(c)
                => /\ IsTracked(c)'
                   /\ caddyUp => Routed(c, srv0') ]_vars

\* the table entries kept under the container's full or short id, in table order
EntriesOf(d, entries) ==
    LET mine(x) == x.container_id \in {FullId(d), ShortId(d)}
    IN  Filter(mine, entries)

\* the container routes and redirects of the container on a server, in server order
ProxyRoutesOf(d, rs) ==
    LET mine(r) == /\ r.id[1] \in {"revp_route", "revp_http_redirect"}
                   /\ r.id[2] \in {FullId(d), ShortId(d)}
    IN  Filter(mine, rs)

\* the container's revp labels yield no valid service
MalformedLabels(c) == labels[c] \in {LabelsNoDomain, LabelsMalformed}

\* the start handler cannot complete: the inspection or the proxy does not answer
StartFails(c) == ~hostUp[HostOf(c)] \/ status[c] = "gone" \/ ~caddyUp

\* C20: when the start handler runs for a container whose revp labels are
\* malformed, or fails for it, the table entry and the proxy routes of every
\* other container are afterwards what they were before.
C20_MalformedLabelIsolation ==
    [][ \A c \in Containers :
          (Handled("start", c) /\ (MalformedLabels(c) \/ StartFails(c)))
              => \A d \in Containers \ {c} :
                     /\ EntriesOf(d, containers') = EntriesOf(d, containers)
                     /\ ProxyRoutesOf(d, srv0') = ProxyRoutesOf(d, srv0)
                     /\ ProxyRoutesOf(d, srv1') = ProxyRoutesOf(d, srv1) ]_vars

\* the start event of a container with malformed labels was handled while
\* the other container is tracked and routed
C20_Witness ==
    /\ last.op = "start" /\ last.id = FullId("c2")
    /\ MalformedLabels("c2") /\ ~IsTracked("c2")
    /\ IsTracked("c1") /\ Routed("c1", srv0)

\* a sweep runs while the listing of the container's host fails
SweptWhileListingFails(c) == SweepStep /\ ~hostUp[HostOf(c)]

\* C23: when the listing of a host fails during a sweep, the containers
\* tracked from that host are still in the table after the sweep and their
\* routes are still on the proxy.
C23_FailedListingKeeps ==
    [][ \A c \in Containers :
          SweptWhileListingFails(c)
              => /\ IsTracked(c) => IsTracked(c)'
                 /\ Routed(c, srv0) => Routed(c, srv0') ]_vars

\* a sweep lists the running container that is tracked under its full id only
SweptTrackedByFullId(c) ==
    /\ SweepStep /\ hostUp[HostOf(c)] /\ status[c] = "running"
    /\ TrackedIds \cap {FullId(c), ShortId(c)} = {FullId(c)}

\* the routes on the server that carry the container's short id
ShortIdRoutes(c, rs) == {r \in RoutesOf(ShortId(c), rs) : r.id[1] = "revp_route"}

\* C24: a sweep that lists, under its short id, a running container tracked
\* under its full id adds no second table entry, installs no second
\* revp_route_ for it, and neither culls it nor removes its route.
C24_OneEntryPerContainer ==
    [][ \A c \in Containers :
          SweptTrackedByFullId(c)
              => /\ TrackedIds' \cap {FullId(c), ShortId(c)} = {FullId(c)}
                 /\ ShortIdRoutes(c, srv0') = ShortIdRoutes(c, srv0)
                 /\ RoutesOf(FullId(c), srv0) \subseteq RoutesOf(FullId(c), srv0') ]_vars

\* the container routes on the server that match the domain, in server order
ContainerRoutesFor(domain, rs) ==
    LET mine(r) == r.id[1] = "revp_route" /\ r.host = domain
    IN  Filter(mine, rs)

\* at most one container route per domain on the server, the recorded owner's
OneRoutePerDomain(rs, owners) ==
    \A domain \in Domains :
        LET found == ContainerRoutesFor(domain, rs)
        IN  /\ Len(found) <= 1
            /\ Len(found) = 1
                  => owners[domain] = ContainerOwner(found[1].id[2], found[1].id[3])

\* the consumer handles a start, die or restart event of some container
LifecycleHandled ==
    \E c \in Containers : \E action \in {"start", "die", "restart"} : Handled(action, c)

\* C25: the start and stop handlers keep srv0 at one container route per
\* domain, that of the owner the ownership map records; a second container
\* claiming an owned domain does not leave the previous owner's route behind.
C25_OneRoutePerDomain ==
    [][ (LifecycleHandled /\ OneRoutePerDomain(srv0, routes))
            => OneRoutePerDomain(srv0', routes') ]_vars

\* how many routes of the server carry the @id
IdCount(route_id, rs) == LET same(r) == r.id = route_id IN Count(same, rs)

\* C26: after the start handler installed the routes of a container with the
\* proxy reachable, srv0 holds exactly one route with each of its
\* revp_route_ ids and srv1 exactly one with each of its revp_http_redirect_
\* ids, however often the install was made before.
C26_PutRouteDedupes ==
    [][ \A c \in Containers :
          StartHandled(c)
              => /\ \A r \in DerivedRoutes(c) : IdCount(r.id, srv0') = 1
                 /\ \A r \in DerivedRedirects(c) : IdCount(r.id, srv1') = 1 ]_vars

\* the ids the listings of all hosts show
ObservedIds == UNION {Range(ListContainers(h)) : h \in Hosts}

\* a sweep runs with every host answering its listing
SweptAllListed == SweepStep /\ \A h \in Hosts : hostUp[h]

\* the routes and redirects the ownership map attributes to the table entry
OwnedRouteIds(entry) ==
    UNION { {RouteId(entry.container_id, service.port),
             RedirectId(entry.container_id, service.port)} :
            service \in {x \in Range(ValidServices(entry)) :
                            routes[x.domain] = ContainerOwner(entry.container_id, x.port)} }

\* C30: after a sweep in which every listing succeeds the table has no entry
\* whose id no listing showed, and the routes owned by an entry the sweep
\* culled are on neither server.
C30_Culling ==
    [][ SweptAllListed
            => /\ TrackedIds' \subseteq ObservedIds
               /\ \A entry \in Range(containers) :
                      entry.container_id \notin ObservedIds
                          => \A route_id \in OwnedRouteIds(entry) :
                                 IdCount(route_id, srv0') + IdCount(route_id, srv1') = 0 ]_vars

\* the route of a container that neither runs nor is tracked is on the proxy
\* while the service runs and the proxy answers
Orphaned(c) ==
    /\ phase = "running" /\ caddyUp
    /\ status[c] # "running" /\ ~IsTracked(c) /\ Routed(c, srv0)

\* C28: the route of a stopped container that the stop handler could not
\* remove during a proxy outage does not stay on the proxy: the sweep that
\* runs once the proxy and the hosts answer removes it.
C28_RemovalSurvivesOutage ==
    [][ \A c \in Containers :
          (SweepStep /\ Orphaned(c) /\ \A h \in Hosts : hostUp[h])
              => ~Routed(c, srv0') ]_vars

(***************************************************************************)
(* Single calls: the arguments are drawn at the start, the step applies    *)
(* the function to them.                                                   *)
(***************************************************************************)
\* NetworkSettings.Ports: any subset of the keys, each with no, one or two bindings
PortTables ==
    UNION { [keys -> {<<>>, <<"32000">>, <<"33000", "33001">>}] :
              keys \in SUBSET ({"80", "81"} \X {"tcp", "udp"}) }

ResolveInputs ==
    { [fn |-> "resolve_port_mapping", services |-> ParseServices(container_labels),
       port_bindings |-> table] :
        container_labels \in {LabelsPlain, LabelsTwo, LabelsNoDomain}, table \in PortTables }

(* The host configuration (hosts_config.py).  A host entry and the          *)
(* defaults section are maps from the field names they give to values.      *)
\* HostConfig(**entry): hostname, user and key_file are required, the other
\* fields have defaults; Invalid stands for the ValidationError
Invalid == [error |-> "ValidationError"]
HostConfig(entry) ==
    IF ~({"hostname", "user", "key_file"} \subseteq DOMAIN entry) THEN Invalid
    ELSE [ hostname |-> entry.hostname,
           user |-> entry.user,
           port |-> GetOr(entry, "port", 22),
           key_file |-> entry.key_file,
           description |-> GetOr(entry, "description", ""),
           enabled |-> GetOr(entry, "enabled", TRUE) ]

\* HostDefaults(**defaults)
HostDefaults(defaults) ==
    [ user |-> GetOr(defaults, "user", "revp"),
      port |-> GetOr(defaults, "port", 22),
      key_file |-> GetOr(defaults, "key_file", "/root/.ssh/id_revp"),
      enabled |-> GetOr(defaults, "enabled", TRUE) ]

\* load_hosts_config: the defaults fill the keys a host entry does not have
ApplyDefaults(entry, defaults) ==
    [key \in DOMAIN entry \cup DOMAIN defaults |->
        IF key \in DOMAIN entry THEN entry[key] ELSE defaults[key]]

\* a validate_unique_hostnames that compares hostnames as written
ValidateUniqueHostnamesExact(hosts) ==
    LET step(acc, host) ==
            IF host.config.hostname \in DOMAIN acc.hostnames_seen
            THEN [acc EXCEPT !.errors =
                      Append(@, <<host.alias, acc.hostnames_seen[host.config.hostname]>>)]
            ELSE [acc EXCEPT !.hostnames_seen = (host.config.hostname :> host.alias) @@ @]
    IN  Fold(step, [hostnames_seen |-> <<>>, errors |-> <<>>], hosts).errors

\* HostsConfig.validate_unique_hostnames: the errors, each the two aliases it names
ValidateUniqueHostnames(hosts) ==
    LET step(acc, host) ==
            IF Lower(host.config.hostname) \in DOMAIN acc.hostnames_seen
            THEN [acc EXCEPT !.errors =
                      Append(@, <<host.alias, acc.hostnames_seen[Lower(host.config.hostname)]>>)]
            ELSE [acc EXCEPT !.hostnames_seen = (Lower(host.config.hostname) :> host.alias) @@ @]
    IN  Fold(step, [hostnames_seen |-> <<>>, errors |-> <<>>], hosts).errors

\* load_hosts_config(config_file) on the parsed file: what it raises, the aliases
\* its message names, and the HostsConfig it returns
LoadHostsConfig(data) ==
    LET defaults == IF "defaults" \in DOMAIN data THEN data.defaults ELSE <<>>
        hosts == [i \in 1..Len(data.hosts) |->
                    [ alias |-> data.hosts[i].alias,
                      config |-> HostConfig(ApplyDefaults(data.hosts[i].entry, defaults)) ]]
        loaded(errors) ==
            IF errors # <<>>
            THEN [raised |-> "ValueError", named |-> Range(errors), hosts_config |-> None]
            ELSE [ raised |-> None, named |-> {},
                   hosts_config |->
                       [ hosts |-> hosts,
                         defaults |-> IF "defaults" \in DOMAIN data
                                      THEN <<HostDefaults(data.defaults)>> ELSE <<>> ] ]
    IN  IF \E i \in 1..Len(hosts) : hosts[i].config = Invalid
        THEN [raised |-> "ValueError", named |-> {}, hosts_config |-> None]
        ELSE loaded(ValidateUniqueHostnames(hosts))

\* HostsConfig.get_host_config for the host at index i
GetHostConfig(hosts_config, i) ==
    LET host == hosts_config.hosts[i].config
        overridden(defaults_dict) ==
            [field \in DOMAIN host |->
                IF /\ field \in DOMAIN defaults_dict
                   /\ ~(field \in DOMAIN host /\ field # "enabled")
                   /\ (field \notin DOMAIN host \/ host[field] = TRUE)
                THEN defaults_dict[field] ELSE host[field]]
    IN  IF hosts_config.defaults # <<>> THEN overridden(hosts_config.defaults[1]) ELSE host

\* HostsConfig.get_enabled_hosts: the aliases it returns
GetEnabledHosts(hosts_config) ==
    { hosts_config.hosts[i].alias :
        i \in {j \in 1..Len(hosts_config.hosts) : GetHostConfig(hosts_config, j).enabled} }

\* host entries as the file may give them: user, port and enabled may be absent
HostEntries ==
    { ("hostname" :> hostname) @@ ("key_file" :> "/k") @@ user @@ port @@ enabled :
        hostname \in {"box.lan", "Box.lan", "nas.lan"},
        user \in {<<>>, "user" :> "me"},
        port \in {<<>>, "port" :> 2222},
        enabled \in {<<>>, "enabled" :> TRUE, "enabled" :> FALSE} }

\* the defaults section, or no such section
DefaultsSections ==
    { <<>>,
      <<"enabled" :> FALSE>>,
      <<"enabled" :> TRUE>>,
      <<("user" :> "ops") @@ ("port" :> 2200)>>,
      <<("user" :> "ops") @@ ("enabled" :> FALSE)>> }

HostsInputs ==
    { [fn |-> "load_hosts_config",
       data |-> IF section = <<>> THEN [hosts |-> hosts_section]
                ELSE [hosts |-> hosts_section, defaults |-> section[1]]] :
        hosts_section \in { << [alias |-> "a1", entry |-> e1], [alias |-> "a2", entry |-> e2] >> :
                              e1 \in HostEntries, e2 \in HostEntries },
        section \in DefaultsSections }

(* The proxy driver's start (caddy_manager.py): the servers of the proxy    *)
(* configuration, each present or not, with its listen array.              *)
\* the characters of a listener address
AddressChars(address) ==
    CASE address = ":80" -> <<":", "8", "0">>
      [] address = ":443" -> <<":", "4", "4", "3">>
      [] address = ":8080" -> <<":", "8", "0", "8", "0">>

\* needle in hay, on strings
Contains(hay, needle) ==
    \E i \in 1..(Len(hay) - Len(needle) + 1) : SubSeq(hay, i, i + Len(needle) - 1) = needle

\* any(":80" in l for l in current_listen)
AnyListens(current_listen, address) ==
    \E i \in 1..Len(current_listen) :
        Contains(AddressChars(current_listen[i]), AddressChars(address))

\* a server the configuration does not have
NoServer == [present |-> FALSE, listen |-> <<>>, routes |-> <<>>]

\* CaddyManager.ensure_http_https_listeners: GET of srv0, then PUT of a new
\* server or PATCH of its listen array; every failure is logged
EnsureHttpHttpsListeners(config, up) ==
    IF ~up THEN config
    ELSE IF ~config.srv0.present
    THEN [config EXCEPT !.srv0 = [present |-> TRUE, listen |-> <<":80", ":443">>,
                                  routes |-> <<>>]]
    ELSE IF ~AnyListens(config.srv0.listen, ":80") \/ ~AnyListens(config.srv0.listen, ":443")
    THEN [config EXCEPT !.srv0.listen = <<":80", ":443">>]
    ELSE config

\* CaddyManager.start: test_connection answers False when the proxy does not
\* answer and raises nothing; then the listeners are ensured
CaddyStart(config, up) ==
    [raised |-> FALSE, config |-> EnsureHttpHttpsListeners(config, up)]

ServerChoices ==
    { NoServer,
      [present |-> TRUE, listen |-> <<":443">>, routes |-> <<>>],
      [present |-> TRUE, listen |-> <<":80">>, routes |-> <<"tenant_x_landing">>],
      [present |-> TRUE, listen |-> <<":8080", ":443">>, routes |-> <<>>],
      [present |-> TRUE, listen |-> <<":80", ":443">>, routes |-> <<"tenant_x_landing">>] }

StartInputs ==
    { [fn |-> "caddy_start", up |-> up, config |-> [srv0 |-> s0, srv1 |-> s1]] :
        up \in BOOLEAN, s0 \in ServerChoices, s1 \in ServerChoices }

(* The label parser, called on label maps of up to MaxLabels labels.        *)
MaxLabels == 3

\* labels as docker may report them: revp keys of two ports, a domain that
\* is empty, keys of three and five segments, a port that is no number, and
\* a key of another tool
LabelPool ==
    { <<Key("80", "domain"), "a.x">>, <<Key("80", "domain"), "">>,
      <<Key("81", "domain"), "b.x">>, <<Key("80", "force-ssl"), "False">>,
      <<Key("81", "backend-proto"), "https">>, <<Key("81", "support-websocket"), "True">>,
      <<<<"snadboy", "revp", "80">>, "a.x">>,
      <<<<"snadboy", "revp", "web", "domain">>, "a.x">>,
      <<<<"snadboy", "revp", "80", "domain", "x">>, "a.x">>,
      <<<<"traefik", "revp", "81", "domain">>, "b.x">> }

\* a label map has each key once
ParseInputs ==
    { [fn |-> "parse_services", labels |-> container_labels] :
        container_labels \in
            { ls \in UNION {[1..n -> LabelPool] : n \in 0..MaxLabels} :
                \A i, j \in 1..Len(ls) : i < j => ls[i][1] # ls[j][1] /\ ls[i] # ls[j] } }

CallInit ==
    /\ MainAtRest
    /\ StoreAtRest
    /\ TasksAtRest
    /\ StepsAtRest
    /\ input \in ResolveInputs \cup HostsInputs \cup StartInputs \cup ParseInputs
    /\ output = NotCalled

\* container.resolve_port_mapping(port_bindings), as _handle_container_start calls it
ResolveCall ==
    /\ input.fn = "resolve_port_mapping"
    /\ output = NotCalled
    /\ output' = [ fn |-> input.fn,
                   services |-> ResolvePortMapping(input.services, input.port_bindings),
                   warnings |-> UnpublishedWarnings(input.services, input.port_bindings) ]
    /\ UNCHANGED <<input, mainVars, storeVars, taskVars, stepVars>>

\* settings.load_hosts_config() and get_enabled_hosts(), as the SSH setup calls them
LoadHostsCall ==
    /\ input.fn = "load_hosts_config"
    /\ output = NotCalled
    /\ LET done(loaded) ==
               output' =
                   [ fn |-> input.fn, raised |-> loaded.raised, named |-> loaded.named,
                     hosts_config |-> loaded.hosts_config,
                     effective |->
                         IF loaded.raised # None THEN <<>>
                         ELSE [i \in 1..Len(input.data.hosts) |->
                                  GetHostConfig(loaded.hosts_config, i)],
                     enabled_hosts |->
                         IF loaded.raised # None THEN {}
                         ELSE GetEnabledHosts(loaded.hosts_config) ]
       IN  done(LoadHostsConfig(input.data))
    /\ UNCHANGED <<input, mainVars, storeVars, taskVars, stepVars>>

\* DockerMonitorService.start calls caddy_manager.start()
StartCall ==
    /\ input.fn = "caddy_start"
    /\ output = NotCalled
    /\ LET started == CaddyStart(input.config, input.up)
       IN  output' = [fn |-> input.fn, raised |-> started.raised, config |-> started.config]
    /\ UNCHANGED <<input, mainVars, storeVars, taskVars, stepVars>>

\* ContainerInfo(container_id, host, host_ip, labels, name): the services the
\* constructor parses, and valid_services
ParseCall ==
    /\ input.fn = "parse_services"
    /\ output = NotCalled
    /\ LET container == ContainerInfo("c1full", "h1", input.labels, <<>>)
       IN  output' = [ fn |-> input.fn, services |-> container.services,
                       valid_services |-> ValidServices(container) ]
    /\ UNCHANGED <<input, mainVars, storeVars, taskVars, stepVars>>

CallNext ==
    \/ ResolveCall
    \/ LoadHostsCall
    \/ StartCall
    \/ ParseCall

CallSpec == CallInit /\ [][CallNext]_vars

(***************************************************************************)
(* The tasks and the shutdown.  A handler task (the event consumer of the  *)
(* container's host, the sweep) runs a handler from await to await; the    *)
(* file watcher runs its reload in its own thread; the service's stop      *)
(* stops the monitor, closes the proxy client, then stops the watcher.     *)
(***************************************************************************)
HandlerTasks == {"consumer", "sweep"}

TaskInit ==
    /\ MainAtRest
    /\ StoreAtRest
    /\ CallAtRest
    /\ StepsAtRest
    /\ at = [t \in {"consumer", "sweep", "watcher"} |-> "idle"]
    /\ svc = "running"
    /\ tracked \in BOOLEAN
    /\ sent = [by |-> "none", method |-> "", late |-> FALSE]

\* a task moves; nothing else does
Moves(t, to) ==
    /\ at' = [at EXCEPT ![t] = to]
    /\ UNCHANGED <<svc, mainVars, storeVars, callVars, stepVars>>

\* a route-mutating request goes to the proxy
Sends(t, method) == sent' = [by |-> t, method |-> method, late |-> svc # "running"]

\* _handle_container_start is entered and awaits the inspection; the sweep
\* enters it only for a listed id that is not in the table
BeginStart(t) ==
    /\ at[t] = "idle"
    /\ t = "sweep" => ~tracked
    /\ Moves(t, "start_inspect")
    /\ UNCHANGED <<tracked, sent>>

\* the inspection returned: the container is stored and add_route awaits the proxy
StartStore(t) ==
    /\ at[t] = "start_inspect"
    /\ tracked' = TRUE
    /\ Moves(t, "start_add")
    /\ UNCHANGED sent

\* add_route posts the route and the start handler returns
StartAdd(t) ==
    /\ at[t] = "start_add"
    /\ Sends(t, "POST")
    /\ Moves(t, "idle")
    /\ UNCHANGED tracked

\* _handle_container_stop finds the id in the table and awaits remove_route;
\* the consumer enters it for a stop event, the sweep for an id it did not see
BeginStop(t) ==
    /\ at[t] = "idle"
    /\ tracked
    /\ Moves(t, "stop_remove")
    /\ UNCHANGED <<tracked, sent>>

\* remove_route deleted the route; the stop handler deletes the table entry
StopRemove(t) ==
    /\ at[t] = "stop_remove"
    /\ Sends(t, "DELETE")
    /\ tracked' = FALSE
    /\ Moves(t, "idle")

\* the observer's thread sees the file change and runs _trigger_reload, which sleeps
FileChanged ==
    /\ at["watcher"] = "idle"
    /\ svc # "stopped"
    /\ Moves("watcher", "reload_sleep")
    /\ UNCHANGED <<tracked, sent>>

\* _trigger_reload calls update_static_routes; a closed client raises, which is caught
TriggerReload ==
    /\ at["watcher"] = "reload_sleep"
    /\ IF svc \notin {"stop_watching", "stopped"}
       THEN Sends("watcher", "DELETE")
       ELSE UNCHANGED sent
    /\ Moves("watcher", "idle")
    /\ UNCHANGED tracked

\* DockerMonitorService.stop, step by step
ServiceStop ==
    /\ \/ /\ svc = "running"          \* stop is entered; DockerMonitor.stop cancels the tasks
          /\ svc' = "stop_monitor"
          /\ at' = [t \in DOMAIN at |-> IF t \in HandlerTasks THEN "cancelled" ELSE at[t]]
       \/ /\ svc = "stop_monitor"     \* the gather returned and the executor is shut down
          /\ svc' = "stop_caddy"
          /\ UNCHANGED at
       \/ /\ svc = "stop_caddy"       \* CaddyManager.stop closed the client
          /\ svc' = "stop_watching"
          /\ UNCHANGED at
       \/ /\ svc = "stop_watching"    \* stop_watching joins the observer's thread
          /\ at["watcher"] = "idle"
          /\ svc' = "stopped"
          /\ UNCHANGED at
    /\ UNCHANGED <<tracked, sent, mainVars, storeVars, callVars, stepVars>>

TaskNext ==
    \/ \E t \in HandlerTasks : BeginStart(t)
    \/ \E t \in HandlerTasks : StartStore(t)
    \/ \E t \in HandlerTasks : StartAdd(t)
    \/ \E t \in HandlerTasks : BeginStop(t)
    \/ \E t \in HandlerTasks : StopRemove(t)
    \/ FileChanged
    \/ TriggerReload
    \/ ServiceStop

TaskSpec == TaskInit /\ [][TaskNext]_vars

(***************************************************************************)
(* The life of the service: LifeSpec follows DockerMonitorService.start    *)
(* step by step, then the loop of the event consumer (_monitor_host) until *)
(* the service stops.  A task that is not spawned yet stands at "none".    *)
(***************************************************************************)
LifeInit ==
    /\ MainAtRest
    /\ StoreAtRest
    /\ CallAtRest
    /\ StepsAtRest
    /\ at = [t \in {"consumer", "sweep", "watcher"} |-> "none"]
    /\ svc = "boot"
    /\ tracked = FALSE
    /\ sent = [by |-> "none", method |-> "", late |-> FALSE]

\* the steps of DockerMonitorService.start before the tasks exist
BeforeTasks == {"boot", "caddy", "static", "watching", "cleanup"}

\* a start that spawns the consumers before it runs the startup cleanup
ServiceStartSpawnsFirst ==
    /\ \/ /\ svc = "boot"
          /\ svc' = "caddy"
          /\ UNCHANGED <<at, sent>>
       \/ /\ svc = "caddy"
          /\ svc' = "static"
          /\ \/ Sends("start", "POST")
             \/ UNCHANGED sent
          /\ UNCHANGED at
       \/ /\ svc = "static"
          /\ svc' = "watching"
          /\ at' = [at EXCEPT !["watcher"] = "idle"]
          /\ UNCHANGED sent
       \/ /\ svc = "watching"
          /\ svc' = "cleanup"
          /\ at' = [at EXCEPT !["consumer"] = "connect"]
          /\ UNCHANGED sent
       \/ /\ svc = "cleanup"
          /\ svc' = "cleaned"
          /\ \/ Sends("cleanup", "DELETE")
             \/ UNCHANGED sent
          /\ UNCHANGED at
       \/ /\ svc = "cleaned"
          /\ svc' = "consumers"
          /\ UNCHANGED <<at, sent>>
       \/ /\ svc = "consumers"
          /\ svc' = "running"
          /\ at' = [at EXCEPT !["sweep"] = "idle"]
          /\ UNCHANGED sent
    /\ UNCHANGED <<tracked, mainVars, storeVars, callVars, stepVars>>

\* DockerMonitorService.start with DockerMonitor.start, await by await
ServiceStart ==
    /\ \/ /\ svc = "boot"             \* settings, ssh setup, caddy_manager.start()
          /\ svc' = "caddy"
          /\ UNCHANGED <<at, sent>>
       \/ /\ svc = "caddy"            \* update_static_routes when the store holds routes
          /\ svc' = "static"
          /\ \/ Sends("start", "POST")
             \/ UNCHANGED sent
          /\ UNCHANGED at
       \/ /\ svc = "static"           \* start_watching starts the observer's thread
          /\ svc' = "watching"
          /\ at' = [at EXCEPT !["watcher"] = "idle"]
          /\ UNCHANGED sent
       \/ /\ svc = "watching"         \* DockerMonitor.start awaits cleanup_revp_routes
          /\ svc' = "cleanup"
          /\ UNCHANGED <<at, sent>>
       \/ /\ svc = "cleanup"          \* the cleanup returns, stale routes deleted or none
          /\ svc' = "cleaned"
          /\ \/ Sends("cleanup", "DELETE")
             \/ UNCHANGED sent
          /\ UNCHANGED at
       \/ /\ svc = "cleaned"          \* create_task(_monitor_host) for each host
          /\ svc' = "consumers"
          /\ at' = [at EXCEPT !["consumer"] = "connect"]
          /\ UNCHANGED sent
       \/ /\ svc = "consumers"        \* create_task(_reconciliation_loop); start returns
          /\ svc' = "running"
          /\ at' = [at EXCEPT !["sweep"] = "idle"]
          /\ UNCHANGED sent
    /\ UNCHANGED <<tracked, mainVars, storeVars, callVars, stepVars>>

\* _monitor_host: `docker events` is started, or starting it raises
Connect ==
    /\ at["consumer"] = "connect"
    /\ \/ Moves("consumer", "read")
       \/ Moves("consumer", "raised")
    /\ UNCHANGED <<tracked, sent>>

\* a line of the stream is read and _handle_event is awaited
ReadEvent ==
    /\ at["consumer"] = "read"
    /\ Moves("consumer", "handle")
    /\ UNCHANGED <<tracked, sent>>

\* the event is handled, or handling it raises, which is logged; the next
\* line is awaited
HandleDone ==
    /\ at["consumer"] = "handle"
    /\ \/ Sends("consumer", "POST") /\ tracked' = TRUE
       \/ UNCHANGED <<tracked, sent>>
    /\ Moves("consumer", "read")

\* the stream ends: the loop over process.stdout is left
StreamEnds ==
    /\ at["consumer"] = "read"
    /\ Moves("consumer", "eof")
    /\ UNCHANGED <<tracked, sent>>

\* reading the stream raises: the outer handler is entered
ReadRaises ==
    /\ at["consumer"] = "read"
    /\ Moves("consumer", "raised")
    /\ UNCHANGED <<tracked, sent>>

\* a backoff that ends the consumer after an exception
BackoffGivesUp ==
    /\ \/ at["consumer"] = "eof" /\ Moves("consumer", "sleep5")
       \/ at["consumer"] = "raised" /\ Moves("consumer", "ended")
    /\ UNCHANGED <<tracked, sent>>

\* asyncio.sleep(5) after the stream ended, asyncio.sleep(30) in the handler
\* of an exception, both while _running
Backoff ==
    /\ \/ at["consumer"] = "eof" /\ Moves("consumer", "sleep5")
       \/ at["consumer"] = "raised" /\ Moves("consumer", "sleep30")
    /\ UNCHANGED <<tracked, sent>>

\* the sleep is over and the while loop starts `docker events` again
Reconnect ==
    /\ at["consumer"] \in {"sleep5", "sleep30"}
    /\ Moves("consumer", "connect")
    /\ UNCHANGED <<tracked, sent>>

LifeNext ==
    \/ ServiceStart
    \/ Connect
    \/ ReadEvent
    \/ HandleDone
    \/ StreamEnds
    \/ ReadRaises
    \/ Backoff
    \/ Reconnect
    \/ FileChanged
    \/ TriggerReload
    \/ ServiceStop

LifeSpec == LifeInit /\ [][LifeNext]_vars

(***************************************************************************)
(* The handlers request by request.  One container with one force-ssl      *)
(* service: its route on srv0, its redirect on srv1.  Each task runs one   *)
(* handler at a time and yields at every request; another tool edits srv0  *)
(* and the admin API may stop answering between two requests.              *)
(***************************************************************************)
MaxRoutes == 3
RequestTasks == {"consumer", "sweep"}

\* f"revp_route_{container_id}_{port}", f"revp_http_redirect_{container_id}_{port}"
\* and the @id of a route of another tool
TheRoute == "revp_route_c1full_80"
TheRedirect == "revp_http_redirect_c1full_80"
OtherTool == "tenant_x_landing"

\* route_id.startswith("revp_route_") or route_id.startswith("revp_static_route_")
HasDedupedPrefix(route_id) == route_id = TheRoute

\* route_id.startswith("revp_route_"), as _check_and_restore_routes tests it
HasRoutePrefix(route_id) == route_id = TheRoute

\* how many entries of the array carry the @id
IdCountOf(route_id, rs) == Len(SelectSeq(rs, LAMBDA x : x = route_id))

\* the indices of the array that carry the @id, last first
ReversedIndices(route_id, rs) ==
    LET up(acc, i) == IF rs[i] = route_id THEN <<i>> \o acc ELSE acc
    IN  Fold(up, <<>>, [i \in 1..Len(rs) |-> i])

\* the first index of the array that carries the @id, if any
FirstIndices(route_id, rs) ==
    LET all == ReversedIndices(route_id, rs)
    IN  IF all = <<>> THEN <<>> ELSE <<all[Len(all)]>>

RequestInit ==
    /\ MainAtRest
    /\ StoreAtRest
    /\ CallAtRest
    /\ TasksAtRest
    /\ pos = [t \in RequestTasks |-> "idle"]
    /\ doing = [t \in RequestTasks |-> "none"]
    /\ sel = [t \in RequestTasks |-> <<>>]
    /\ caddy \in {[srv0 |-> <<>>, srv1 |-> <<>>], [srv0 |-> <<OtherTool>>, srv1 |-> <<>>]}
    /\ known = [entry |-> FALSE, owner |-> FALSE]
    /\ alive = TRUE
    /\ hit = [want |-> "", got |-> ""]

\* the task goes on to its next request
Goes(t, to, selected) ==
    /\ pos' = [pos EXCEPT ![t] = to]
    /\ sel' = [sel EXCEPT ![t] = selected]
    /\ UNCHANGED <<doing, alive, mainVars, storeVars, callVars, taskVars>>

\* the task's handler returns
Returns(t) ==
    /\ pos' = [pos EXCEPT ![t] = "idle"]
    /\ doing' = [doing EXCEPT ![t] = "none"]
    /\ sel' = [sel EXCEPT ![t] = <<>>]
    /\ UNCHANGED <<alive, mainVars, storeVars, callVars, taskVars>>

\* DELETE .../servers/<server>/routes/<index>: the route now at the index goes
Deletes(t, server, route_id) ==
    LET index == Head(sel[t])
    IN  IF alive /\ index <= Len(caddy[server])
        THEN /\ caddy' = [caddy EXCEPT ![server] = RemoveAt(@, index)]
             /\ hit' = [want |-> route_id, got |-> caddy[server][index]]
        ELSE /\ hit' = [want |-> route_id, got |-> "none"]
             /\ UNCHANGED caddy

\* _handle_container_start is entered for a start event, which carries the
\* full id, and awaits the inspection; the sweep would call it with the
\* listing's short id, which makes other @ids
StartInspect(t) ==
    /\ t = "consumer"
    /\ pos[t] = "idle"
    /\ pos' = [pos EXCEPT ![t] = "inspect"]
    /\ doing' = [doing EXCEPT ![t] = "start"]
    /\ UNCHANGED <<sel, caddy, known, alive, hit, mainVars, storeVars, callVars, taskVars>>

\* the inspection returned: the container is stored and add_route begins
StartTrack(t) ==
    /\ pos[t] = "inspect"
    /\ known' = [known EXCEPT !.entry = TRUE]
    /\ Goes(t, "add_get", <<>>)
    /\ UNCHANGED <<caddy, hit>>

\* _remove_route_by_id, called by _apply_route for srv0: the GET of srv0's
\* routes; a failed GET is logged and the install goes on
AddGet(t) ==
    /\ pos[t] = "add_get"
    /\ IF alive /\ HasDedupedPrefix(TheRoute) /\ ReversedIndices(TheRoute, caddy.srv0) # <<>>
       THEN Goes(t, "add_delete", ReversedIndices(TheRoute, caddy.srv0))
       ELSE Goes(t, "add_post0", <<>>)
    /\ UNCHANGED <<caddy, known, hit>>

\* _remove_route_by_id: the DELETE of the next selected index
AddDelete(t) ==
    /\ pos[t] = "add_delete"
    /\ Deletes(t, "srv0", TheRoute)
    /\ Goes(t, IF Tail(sel[t]) = <<>> THEN "add_post0" ELSE "add_delete", Tail(sel[t]))
    /\ UNCHANGED known

\* _apply_route for srv0: the POST of the route; a failure ends add_route
AddPost0(t) ==
    /\ pos[t] = "add_post0"
    /\ IF alive
       THEN /\ Len(caddy.srv0) < MaxRoutes
            /\ caddy' = [caddy EXCEPT !.srv0 = Append(@, TheRoute)]
            /\ Goes(t, "add_post1", <<>>)
       ELSE /\ Returns(t)
            /\ UNCHANGED caddy
    /\ UNCHANGED <<known, hit>>

\* _apply_route for srv1: _remove_route_by_id returns at once for a redirect
\* id, then the POST of the redirect; add_route records the owner after it
AddPost1(t) ==
    /\ pos[t] = "add_post1"
    /\ IF alive
       THEN /\ Len(caddy.srv1) < MaxRoutes
            /\ caddy' = [caddy EXCEPT !.srv1 = Append(@, TheRedirect)]
            /\ known' = [known EXCEPT !.owner = TRUE]
       ELSE UNCHANGED <<caddy, known>>
    /\ Returns(t)
    /\ UNCHANGED hit

\* _handle_container_stop, for a stop event or for the sweep's cull, finds
\* the entry; remove_route skips a container that is not the recorded owner,
\* and the entry is deleted at once
StopCheck(t) ==
    /\ pos[t] = "idle"
    /\ known.entry
    /\ IF known.owner
       THEN /\ pos' = [pos EXCEPT ![t] = "remove_get0"]
            /\ doing' = [doing EXCEPT ![t] = "stop"]
            /\ UNCHANGED <<sel, known>>
       ELSE /\ known' = [known EXCEPT !.entry = FALSE]
            /\ UNCHANGED <<pos, doing, sel>>
    /\ UNCHANGED <<caddy, alive, hit, mainVars, storeVars, callVars, taskVars>>

\* _remove_route for srv0: the GET of the routes and the search of the index
RemoveGet0(t) ==
    /\ pos[t] = "remove_get0"
    /\ IF alive /\ FirstIndices(TheRoute, caddy.srv0) # <<>>
       THEN Goes(t, "remove_delete0", FirstIndices(TheRoute, caddy.srv0))
       ELSE Goes(t, "remove_get1", <<>>)
    /\ UNCHANGED <<caddy, known, hit>>

\* _remove_route for srv0: the DELETE of the index
RemoveDelete0(t) ==
    /\ pos[t] = "remove_delete0"
    /\ Deletes(t, "srv0", TheRoute)
    /\ Goes(t, "remove_get1", <<>>)
    /\ UNCHANGED known

\* remove_route forgets the owner and the stop handler deletes the entry
Forgets(t) ==
    /\ known' = [entry |-> FALSE, owner |-> FALSE]
    /\ Returns(t)

\* _remove_route for the redirect on srv1: the GET and the search
RemoveGet1(t) ==
    /\ pos[t] = "remove_get1"
    /\ IF alive /\ FirstIndices(TheRedirect, caddy.srv1) # <<>>
       THEN /\ Goes(t, "remove_delete1", FirstIndices(TheRedirect, caddy.srv1))
            /\ UNCHANGED known
       ELSE Forgets(t)
    /\ UNCHANGED <<caddy, hit>>

\* _remove_route for the redirect on srv1: the DELETE of the index
RemoveDelete1(t) ==
    /\ pos[t] = "remove_delete1"
    /\ Deletes(t, "srv1", TheRedirect)
    /\ Forgets(t)

\* _check_and_restore_routes finds the table not empty and awaits the config
RestoreBegin(t) ==
    /\ t = "sweep"
    /\ pos[t] = "idle"
    /\ known.entry
    /\ pos' = [pos EXCEPT ![t] = "restore_get"]
    /\ doing' = [doing EXCEPT ![t] = "restore"]
    /\ UNCHANGED <<sel, caddy, known, alive, hit, mainVars, storeVars, callVars, taskVars>>

\* the config arrived: a tracked service is missing when no route of any
\* server carries its revp_route_ id, and add_route is called for it
RestoreGet(t) ==
    /\ pos[t] = "restore_get"
    /\ IF /\ alive
          /\ known.entry
          /\ HasRoutePrefix(TheRoute)
          /\ TheRoute \notin Range(caddy.srv0) \cup Range(caddy.srv1)
       THEN Goes(t, "add_get", <<>>)
       ELSE Returns(t)
    /\ UNCHANGED <<caddy, known, hit>>

\* another tool inserts a route of its own at the head of srv0, or removes one
ExternalEditRoutes ==
    /\ \/ /\ Len(caddy.srv0) < MaxRoutes
          /\ caddy' = [caddy EXCEPT !.srv0 = <<OtherTool>> \o @]
       \/ \E i \in 1..Len(caddy.srv0) :
             /\ caddy.srv0[i] = OtherTool
             /\ caddy' = [caddy EXCEPT !.srv0 = RemoveAt(@, i)]
    /\ UNCHANGED <<pos, doing, sel, known, alive, hit, mainVars, storeVars, callVars, taskVars>>

\* the admin API stops or resumes answering
AdminToggle ==
    /\ alive' = ~alive
    /\ UNCHANGED <<pos, doing, sel, caddy, known, hit, mainVars, storeVars, callVars, taskVars>>

RequestNext ==
    \/ \E t \in RequestTasks : StartInspect(t)
    \/ \E t \in RequestTasks : StartTrack(t)
    \/ \E t \in RequestTasks : AddGet(t)
    \/ \E t \in RequestTasks : AddDelete(t)
    \/ \E t \in RequestTasks : AddPost0(t)
    \/ \E t \in RequestTasks : AddPost1(t)
    \/ \E t \in RequestTasks : StopCheck(t)
    \/ \E t \in RequestTasks : RemoveGet0(t)
    \/ \E t \in RequestTasks : RemoveDelete0(t)
    \/ \E t \in RequestTasks : RemoveGet1(t)
    \/ \E t \in RequestTasks : RemoveDelete1(t)
    \/ \E t \in RequestTasks : RestoreBegin(t)
    \/ \E t \in RequestTasks : RestoreGet(t)
    \/ ExternalEditRoutes
    \/ AdminToggle

RequestSpec == RequestInit /\ [][RequestNext]_vars

(***************************************************************************)
(* Properties of the static route store, under StoreSpec.                  *)
(***************************************************************************)
\* the stored route list: what get_routes() answers
Stored == LoadRoutes(CurStore).out
StoredDomains == {Stored[i].domain : i \in 1..Len(Stored)}

\* the step is Add(route), by the method or by POST
IsAdd == reply'.op = "add"
\* the step is Update(domain, route) or Delete(domain), by the method or by the endpoint
IsUpdateOrDelete == reply'.op \in {"update", "delete"}
\* the step left the stored list as it was, in memory and on file; the memory
\* copy may only have been refreshed from the unchanged file
StoreUnchanged ==
    /\ disk' = disk
    /\ Stored' = Stored
    /\ store_routes' \in {store_routes, Stored}

\* C11: Add of a route whose domain is already stored fails, Update and Delete
\* of a domain that is not stored fail, and each of these failing operations
\* leaves the stored route list unchanged in memory and on file.
C11_FailureSemantics ==
    [][ /\ (IsAdd /\ reply'.route[1].domain \in StoredDomains)
            => (~reply'.ok /\ StoreUnchanged)
        /\ (IsUpdateOrDelete /\ reply'.domain \notin StoredDomains)
            => (~reply'.ok /\ StoreUnchanged) ]_vars

\* an Add was refused because its domain is stored, and the store holds routes
C11_Witness ==
    /\ reply.op = "add" /\ ~reply.ok
    /\ reply.route[1].domain \in StoredDomains
    /\ store_routes # <<>>
    /\ disk.kind = "valid"

\* no two routes of the list have the same domain
UniqueDomains(routes_list) ==
    \A i, j \in 1..Len(routes_list) :
        routes_list[i].domain = routes_list[j].domain => i = j

\* the step is Update(domain, route) with route.domain another stored route's domain
IsUpdateOntoStored ==
    /\ reply'.op = "update"
    /\ reply'.route[1].domain # reply'.domain
    /\ reply'.route[1].domain \in StoredDomains

\* C12: Update(domain, route) where route.domain differs from domain and is
\* the domain of another stored route fails and leaves the store unchanged,
\* and no Add, Update or Delete makes two stored routes share a domain.
C12_DomainUniqueness ==
    [][ /\ IsUpdateOntoStored => (~reply'.ok /\ StoreUnchanged)
        /\ (reply'.op \in {"add", "update", "delete"} /\ UniqueDomains(Stored))
            => UniqueDomains(Stored') ]_vars

(***************************************************************************)
(* Properties of single calls, under CallSpec.                             *)
(***************************************************************************)
\* the port table has the key with at least one binding
Bound(table, port, proto) ==
    <<port, proto>> \in DOMAIN table /\ Len(table[<<port, proto>>]) >= 1

\* what the claim expects of the service at index i after the call
PortResolved(i) ==
    LET before == input.services[i]
        after == output.services[i]
        table == input.port_bindings
    IN  IF Bound(table, before.port, "tcp")
        THEN after.resolved_host_port = table[<<before.port, "tcp">>][1]
        ELSE IF Bound(table, before.port, "udp")
        THEN after.resolved_host_port = table[<<before.port, "udp">>][1]
        ELSE /\ after.resolved_host_port = None
             /\ before.port \in output.warnings
             /\ ServiceIsValid(after) = ServiceIsValid(before)

\* C13: after port resolution a service on port P carries the first HostPort
\* bound to P/tcp, else the first bound to P/udp, else no resolved port, and
\* in that last case (an empty port table included) a warning was logged and
\* the validity of the service is as before.
C13_PortResolution ==
    (input.fn = "resolve_port_mapping" /\ output # NotCalled)
        => \A i \in 1..Len(input.services) : PortResolved(i)

\* the host configuration was loaded, or the loading failed
HostsLoaded == input.fn = "load_hosts_config" /\ output # NotCalled
\* the aliases the error message names
NamedAliases == UNION {Range(pair) : pair \in output.named}
\* two aliases of the configuration have the same hostname, whatever the case
HasDuplicateHostname ==
    \E i, j \in 1..Len(input.data.hosts) :
        /\ i # j
        /\ Lower(input.data.hosts[i].entry.hostname) = Lower(input.data.hosts[j].entry.hostname)
\* the loading failed, the message names the aliases of every duplicate, and
\* nothing was returned
DuplicateReported ==
    /\ output.raised # None
    /\ \A i, j \in 1..Len(input.data.hosts) :
           (i # j /\ Lower(input.data.hosts[i].entry.hostname)
                      = Lower(input.data.hosts[j].entry.hostname))
               => {input.data.hosts[i].alias, input.data.hosts[j].alias} \subseteq NamedAliases
    /\ output.hosts_config = None
\* every host entry has its required fields, by itself or from the defaults section
EntriesValid ==
    \A i \in 1..Len(input.data.hosts) :
        {"hostname", "user", "key_file"} \subseteq
            DOMAIN input.data.hosts[i].entry
            \cup (IF "defaults" \in DOMAIN input.data THEN DOMAIN input.data.defaults ELSE {})

\* C14 as stated: loading a configuration in which two aliases have the same
\* hostname, compared without regard to case, fails with an error that names
\* both aliases, and returns no configuration.
C14_DuplicateHostnames ==
    (HostsLoaded /\ HasDuplicateHostname) => DuplicateReported

\* C14: loading a configuration whose host entries are each valid and in which
\* two aliases have the same hostname, compared without regard to case, fails
\* with an error that names both aliases, and returns no configuration.
C14_DuplicateHostnamesOfValidEntries ==
    (HostsLoaded /\ EntriesValid /\ HasDuplicateHostname) => DuplicateReported

\* a duplicate that differs in case was reported
C14_Witness ==
    /\ HostsLoaded /\ EntriesValid /\ HasDuplicateHostname
    /\ input.data.hosts[1].entry.hostname # input.data.hosts[2].entry.hostname
    /\ output.raised = "ValueError"
    /\ NamedAliases = {"a1", "a2"}

\* the effective value of the field of host i: the host's own value when the
\* entry gives the field, the value of the defaults section when only that gives it
EffectiveAsSpecified(i, field) ==
    LET entry == input.data.hosts[i].entry
        section == IF "defaults" \in DOMAIN input.data THEN input.data.defaults ELSE <<>>
    IN  IF field \in DOMAIN entry THEN output.effective[i][field] = entry[field]
        ELSE field \in DOMAIN section => output.effective[i][field] = section[field]

\* C15: for every host and field the effective value is the host's own when
\* the entry gives the field and the defaults-section value only when it does
\* not; a host that sets enabled: true is among the enabled hosts whatever the
\* defaults section says.
C15_DefaultsOnlyWhereAbsent ==
    (HostsLoaded /\ output.raised = None)
        => \A i \in 1..Len(input.data.hosts) :
              /\ \A field \in {"user", "port", "enabled"} : EffectiveAsSpecified(i, field)
              /\ ( /\ "enabled" \in DOMAIN input.data.hosts[i].entry
                    /\ input.data.hosts[i].entry.enabled )
                    => input.data.hosts[i].alias \in output.enabled_hosts

(***************************************************************************)
(* Properties of the tasks, under TaskSpec.                                *)
(***************************************************************************)
\* C18: once the service's stop is entered, no task issues a route-mutating
\* request to the proxy.
C18_NoMutationAfterShutdown == ~sent.late

\* C19: the start handler and the stop handler of one container id never
\* run interleaved, whichever tasks run them; so neither do the install and
\* the removal of its domain's route.
C19_Serialization ==
    \A t1, t2 \in HandlerTasks :
        ~(at[t1] \in {"start_inspect", "start_add"} /\ at[t2] = "stop_remove")

(***************************************************************************)
(* Properties of the handlers request by request, under RequestSpec.       *)
(***************************************************************************)
\* C21: every DELETE by index the driver issues removes a route that carries,
\* at the moment of the delete, the @id the driver selected, whatever was
\* inserted into or removed from the array since the driver's GET.
C21_DeleteHitsSelected == hit.got \in {"", "none", hit.want}

\* a route with the container's revp_route_ id is added to srv0
RouteInstalled ==
    IdCountOf(TheRoute, caddy.srv0') > IdCountOf(TheRoute, caddy.srv0)

\* C22: once the stop handler has completed for the container, and until a
\* new start has stored it again, no step of a restoration pass that listed
\* the route as missing before the stop installs the route or records the
\* container as owner of the domain.
C22_NoResurrection ==
    [][ \A t \in RequestTasks :
          (doing[t] = "restore" /\ ~known.entry /\ pos'[t] # pos[t])
              => (~RouteInstalled /\ ~known'.owner) ]_vars

\* no task but t is inside a handler
Settled(t) == \A u \in RequestTasks \ {t} : pos[u] = "idle"

\* the container is tracked with its route on srv0, no redirect on srv1 and
\* no owner recorded: the install ended between its two servers
PartlyInstalled ==
    /\ known.entry /\ ~known.owner
    /\ TheRoute \in Range(caddy.srv0) /\ TheRedirect \notin Range(caddy.srv1)

\* C27: after an install that put the route on srv0 and failed on srv1, a
\* stop or cull of the container removes the srv0 route, and a restoration
\* pass that finds the proxy answering goes on to install what is missing.
C27_PartialInstall ==
    [][ \A t \in RequestTasks :
          (PartlyInstalled /\ alive /\ Settled(t))
              => /\ (pos[t] = "idle" /\ ~known'.entry) => TheRoute \notin Range(caddy'.srv0)
                 /\ (pos[t] = "restore_get" /\ pos'[t] # "restore_get")
                        => pos'[t] = "add_get" ]_vars

\* C29: when the installs of the consumer's start handler and of the sweep's
\* route restoration for the same service have run, in whatever interleaving
\* of their requests, srv0 holds one route with the service's revp_route_ id
\* and srv1 one with its redirect id.
C29_ConcurrentInstalls ==
    (\A t \in RequestTasks : pos[t] = "idle")
        => /\ IdCountOf(TheRoute, caddy.srv0) <= 1
           /\ IdCountOf(TheRedirect, caddy.srv1) <= 1

(***************************************************************************)
(* Properties of the static redirects, the reload and the dispatch.        *)
(***************************************************************************)
\* the file holds a route of the domain that asks for the redirect
WantsRedirect(file, domain) ==
    \E i \in 1..Len(file) : file[i].domain = domain /\ file[i].force_ssl

\* the redirects of srv1 that carry the domain's static redirect id and match it
StaticRedirectsFor(domain, rs) ==
    LET mine(r) == r.id = StaticRedirectId(domain) /\ r.host = domain
    IN  Count(mine, rs)

\* C31: after a static re-apply with the proxy answering, srv1 holds at most
\* one revp_static_http_redirect_ route per domain, and none for a domain
\* that is no longer in the file or no longer asks for force-ssl.
C31_StaticRedirects ==
    [][ (last'.op = "reload" /\ caddyUp)
            => \A domain \in {"s.x", "s_x"} :
                  /\ StaticRedirectsFor(domain, srv1') <= 1
                  /\ ~WantsRedirect(staticFile', domain)
                        => StaticRedirectsFor(domain, srv1') = 0 ]_vars

\* the routes of an array whose @id starts with revp_static_route_
StaticRoutesOf(rs) == LET static(r) == r.id[1] = "revp_static_route" IN Filter(static, rs)

\* C32: a hot reload that finds the file with content that does not parse or
\* validate leaves the revp_static_route_ routes of the proxy and the
\* store's in-memory route list as they were.
C32_FailedReloadKeeps ==
    [][ (reply'.op = "reload" /\ disk.kind = "invalid")
            => /\ StaticRoutesOf(srv0') = StaticRoutesOf(srv0)
               /\ StaticRoutesOf(srv1') = StaticRoutesOf(srv1)
               /\ store_routes' = store_routes ]_vars

\* what a handler result leaves in the table, the ownership map and the proxy
Outcome(m) == <<m.containers, m.routes, m.srv0, m.srv1>>

\* the consumer of host h handles the event at the head of its stream
Handles(h) == queue[h] # <<>> /\ queue' = [queue EXCEPT ![h] = Tail(@)]

\* C33: the consumer of a host takes the events of its stream one at a time
\* and in order; for an event with a container id, start and unpause run the
\* start handler, stop, pause, die and kill the stop handler, restart the
\* stop handler and then the start handler, any other action and an event
\* without id neither.
C33_EventDispatch ==
    [][ \A h \in Hosts :
          (queue'[h] # queue[h] /\ Len(queue'[h]) <= Len(queue[h]))
             => /\ Handles(h)
                /\ LET action == Head(queue[h])[1]
                       container_id == Head(queue[h])[2]
                       after == <<containers', routes', srv0', srv1'>>
                       stopped == HandleContainerStop(Cur, caddyUp, container_id)
                   IN  /\ container_id = "" => after = Outcome(Cur)
                       /\ (container_id # "" /\ action \in {"start", "unpause"})
                            => after = Outcome(HandleContainerStart(Cur, caddyUp, h, container_id))
                       /\ (container_id # "" /\ action \in {"stop", "pause", "die", "kill"})
                            => after = Outcome(stopped)
                       /\ (container_id # "" /\ action = "restart")
                            => after = Outcome(HandleContainerStart(stopped, caddyUp, h,
                                                                     container_id))
                       /\ (container_id # ""
                             /\ action \notin {"start", "unpause", "stop", "pause", "die",
                                               "kill", "restart"})
                            => after = Outcome(Cur) ]_vars

\* C33: a restart event of the tracked, running container was handled while a
\* later event of the same stream waited; the container is tracked again
C33_Witness ==
    /\ last.op = "restart" /\ last.id = FullId("c1")
    /\ Len(queue[HostOf("c1")]) = 1
    /\ FullId("c1") \in TableKeys(Cur)
    /\ caddyUp

\* ports 80 and 443 are listened on by the servers of the configuration
ListensOn(config, address) ==
    \E server \in {config.srv0, config.srv1} :
        server.present /\ \E i \in 1..Len(server.listen) : server.listen[i] = address

\* C36: after the driver's start returned without raising, with the proxy
\* answering, the configuration holds srv0 and srv1 and ports 80 and 443 are
\* listened on; a server that was missing before has an empty routes array.
C36_BothServers ==
    (output.fn = "caddy_start" /\ ~output.raised /\ input.up)
        => /\ output.config.srv0.present /\ output.config.srv1.present
           /\ ListensOn(output.config, ":80") /\ ListensOn(output.config, ":443")
           /\ \A name \in {"srv0", "srv1"} :
                 ~input.config[name].present => output.config[name].routes = <<>>

\* the consumer task exists and is not cancelled
ConsumerLives == at["consumer"] \in {"connect", "read", "handle", "eof", "raised",
                                     "sleep5", "sleep30"}

\* the consumer leaves the position it stood at
Leaves(where_from) == at["consumer"] = where_from /\ at'["consumer"] # where_from

\* C34: while the service runs the consumer of a host never ends: after the
\* end of its stream it waits 5 s and starts the stream again, after an
\* exception it waits 30 s and starts it again, an error in the handling of
\* an event leads back to the stream; once the service stops the consumer
\* is cancelled and starts no stream.
C34_ReconnectLiveness ==
    [][ /\ (svc = "running" /\ svc' = "running") => (ConsumerLives /\ ConsumerLives')
        /\ Leaves("eof") => at'["consumer"] \in {"sleep5", "cancelled"}
        /\ Leaves("raised") => at'["consumer"] \in {"sleep30", "cancelled"}
        /\ (Leaves("sleep5") \/ Leaves("sleep30")) => at'["consumer"] \in {"connect", "cancelled"}
        /\ Leaves("handle") => at'["consumer"] \in {"read", "cancelled"}
        /\ at["consumer"] = "cancelled" => at'["consumer"] = "cancelled"
        /\ svc' \in {"stop_monitor", "stop_caddy", "stop_watching", "stopped"}
              => at'["consumer"] \in {"none", "cancelled"} ]_vars

\* C34: the consumer handled an event, then an exception ended its stream,
\* and it waits the 30 s while the service runs
C34_Witness == svc = "running" /\ at["consumer"] = "sleep30" /\ sent.by = "consumer"

\* C35: the static routes are applied and the file is watched before the
\* startup cleanup begins; the cleanup begins once and has returned before a
\* consumer task exists; the sweep task exists only after the consumers; no
\* handler runs before the cleanup has returned.
C35_StartupOrdering ==
    [][ /\ svc' = "cleanup" => (at'["watcher"] # "none" /\ svc \in {"watching", "cleanup"})
        /\ (svc' = "cleanup" /\ svc # "cleanup") => svc = "watching"
        /\ svc' \in BeforeTasks => svc \in BeforeTasks
        /\ at'["consumer"] # "none" => svc' \notin BeforeTasks
        /\ at'["sweep"] # "none" => (at["consumer"] # "none" /\ svc' \notin BeforeTasks)
        /\ sent'.by = "consumer" => svc' \notin BeforeTasks ]_vars

\* C35: the start has returned, the cleanup deleted stale routes, and the
\* consumer and the sweep are spawned
C35_Witness ==
    /\ svc = "running" /\ sent.by = "cleanup"
    /\ at["watcher"] = "idle" /\ at["consumer"] = "connect" /\ at["sweep"] = "idle"

\* the consumer of host h handles a stop, pause, die or kill event for an id
\* that is in the table neither as it is nor by its first 12 characters
StopsUntracked(h) ==
    /\ Handles(h)
    /\ Head(queue[h])[1] \in {"stop", "pause", "die", "kill"}
    /\ Head(queue[h])[2] # ""
    /\ \A key \in TableKeys(Cur) :
          key # Head(queue[h])[2] /\ ~StartsWith(key, First12(Head(queue[h])[2]))

\* C37: a stop for a container id that the table holds neither under the
\* full nor under the short id sends no mutation to the proxy and leaves the
\* table and the ownership map as they were.
C37_DoubleStop ==
    [][ \A h \in Hosts :
          StopsUntracked(h)
             => /\ ~last'.wrote
                /\ containers' = containers /\ routes' = routes
                /\ srv0' = srv0 /\ srv1' = srv1 ]_vars

\* C37: a stop event for c1 was handled while only c2 was tracked and routed,
\* the proxy answering
C37_Witness ==
    /\ last.op \in {"stop", "pause", "die", "kill"} /\ last.id = FullId("c1")
    /\ ~last.wrote /\ caddyUp
    /\ TableKeys(Cur) = {FullId("c2")}
    /\ changes = MaxEvents /\ queue = [h \in Hosts |-> <<>>]

\* the labels hold no key snadboy.revp.<digits>.<property>, or no service
\* they declare has a domain
Unlabelled(container_labels) ==
    \/ \A i \in 1..Len(container_labels) :
          LET k == container_labels[i][1]
          IN  ~(Len(k) = 4 /\ k[1] = "snadboy" /\ k[2] = "revp" /\ k[3] \in {"80", "81"})
    \/ \A i \in 1..Len(container_labels) :
          ~(Len(container_labels[i][1]) = 4 /\ container_labels[i][1][4] = "domain"
              /\ container_labels[i][1][3] \in {"80", "81"} /\ container_labels[i][2] # "")

\* the consumer of host h handles a start or unpause event for a container
\* whose inspection fails or whose labels declare no service with a domain
StartsUnlabelled(h) ==
    /\ Handles(h)
    /\ Head(queue[h])[1] \in {"start", "unpause"}
    /\ Head(queue[h])[2] \in CIDs
    /\ \/ status[ContainerOf(Head(queue[h])[2])] = "gone"
       \/ ~hostUp[h]
       \/ Unlabelled(labels[ContainerOf(Head(queue[h])[2])])

\* C38: when the inspection fails, or the labels hold no key of the form
\* snadboy.revp.<digits>.<property>, or no declared service has a domain,
\* the start handler adds no table entry and sends no mutation to the proxy.
C38_IgnoresUnlabelled ==
    [][ \A h \in Hosts :
          StartsUnlabelled(h)
             => /\ ~last'.wrote
                /\ containers' = containers /\ routes' = routes
                /\ srv0' = srv0 /\ srv1' = srv1 ]_vars

\* C38: the start event of running c1, whose labels declare a service
\* without domain, was handled with the proxy answering; nothing is tracked
C38_Witness ==
    /\ last.op = "start" /\ last.id = FullId("c1")
    /\ labels["c1"] = LabelsNoDomain /\ status["c1"] = "running"
    /\ caddyUp /\ containers = <<>> /\ srv0 = <<>>

\* the ports named by the keys of four segments snadboy.revp.<digits>.<property>
DeclaredPorts(container_labels) ==
    { container_labels[i][1][3] :
        i \in { n \in 1..Len(container_labels) :
                  /\ Len(container_labels[n][1]) = 4
                  /\ container_labels[n][1][1] = "snadboy"
                  /\ container_labels[n][1][2] = "revp"
                  /\ container_labels[n][1][3] \in {"80", "81"} } }

\* the value the labels give to a property of a port, or the default
Declared(container_labels, port, property, default) ==
    IF \E i \in 1..Len(container_labels) :
          container_labels[i][1] = <<"snadboy", "revp", port, property>>
    THEN LET i == CHOOSE n \in 1..Len(container_labels) :
                     container_labels[n][1] = <<"snadboy", "revp", port, property>>
         IN  container_labels[i][2]
    ELSE default

\* C39: the parser yields one service for each port named by a key of the
\* form snadboy.revp.<digits>.<property> and none for any other key; a
\* service has the domain, backend-proto and backend-path its keys give, with
\* the defaults http and /, force-ssl true and support-websocket false when
\* the keys are absent; the valid services are those with a domain.
C39_LabelParser ==
    output.fn = "parse_services"
        => /\ {output.services[i].port : i \in 1..Len(output.services)}
                 = DeclaredPorts(input.labels)
           /\ Len(output.services) = Cardinality(DeclaredPorts(input.labels))
           /\ \A i \in 1..Len(output.services) :
                 LET service == output.services[i]
                     given(property, default) ==
                         Declared(input.labels, service.port, property, default)
                 IN  /\ service.domain = given("domain", "")
                     /\ service.backend_proto = given("backend-proto", "http")
                     /\ service.backend_path = given("backend-path", "/")
                     /\ given("force-ssl", "absent") = "absent" => service.force_ssl
                     /\ given("support-websocket", "absent") = "absent"
                           => ~service.support_websocket
           /\ Range(output.valid_services)
                 = {output.services[i] : i \in {n \in 1..Len(output.services) :
                                                  output.services[n].domain # ""}}

\* C39: the parser was called on labels with keys it ignores and made two
\* services, one of them without domain
C39_Witness ==
    /\ output.fn = "parse_services"
    /\ Len(output.services) = 2 /\ Len(output.valid_services) = 1
    /\ Len(input.labels) = MaxLabels
    /\ \E i \in 1..Len(input.labels) : Len(input.labels[i][1]) # 4
====
